---- MODULE Spec2Model ----
(***************************************************************************)
(* A model of the TFTP client of rust-tftp: the transfer engine            *)
(* (common.rs receive_loop) driven in the GET and the PUT role             *)
(* (client.rs get_internal, put_internal) and the option registry          *)
(* (common.rs TransferOptions).                                            *)
(*                                                                         *)
(* Conventions.  A Rust String or Vec<u8> is a sequence of byte values.    *)
(* Option<T> is a sequence of length 0 (None) or 1 (Some).  A HashMap is   *)
(* a set of <<key, value>> pairs with distinct keys.  Durations are in     *)
(* milliseconds, as handed to Timer::oneshot.                              *)
(***************************************************************************)
EXTENDS Integers, Sequences, FiniteSets, TLC

\* ------------------------------------------------------------------------
\* Bounds of the model (not program constants)
\* ------------------------------------------------------------------------

\* The environment delivers at most this many inbound packets in one run.
MaxRecv == 3

\* The environment stops the timers and the peer once the engine has emitted
\* this many packets.
MaxSent == 4

\* ------------------------------------------------------------------------
\* Program constants
\* ------------------------------------------------------------------------

DEFAULT_BLOCK_SIZE == 512

U16_MAX == 65535

\* ------------------------------------------------------------------------
\* Option<T>
\* ------------------------------------------------------------------------

None == <<>>

Some(x) == <<x>>

IsSome(o) == Len(o) = 1

Unwrap(o) == o[1]

\* ------------------------------------------------------------------------
\* Strings (byte sequences) used by the engine
\* ------------------------------------------------------------------------

\* "blksize"
KeyBlksize == <<98, 108, 107, 115, 105, 122, 101>>

\* "timeout"
KeyTimeout == <<116, 105, 109, 101, 111, 117, 116>>

\* "tsize"
KeyTsize == <<116, 115, 105, 122, 101>>

\* "rollover"
KeyRollover == <<114, 111, 108, 108, 111, 118, 101, 114>>

\* "Unknown TID"
StrUnknownTid == <<85, 110, 107, 110, 111, 119, 110, 32, 84, 73, 68>>

\* "/path", the remote path of every run
StrPath == <<47, 112, 97, 116, 104>>

\* The ASCII digits '0' .. '9'
Digits == 48 .. 57

\* ToStr for an unsigned integer: its decimal text, no sign, no padding.
RECURSIVE ToStr(_)
ToStr(n) == IF n < 10 THEN <<48 + n>> ELSE ToStr(n \div 10) \o <<48 + (n % 10)>>

RECURSIVE DigitsValue(_)
DigitsValue(s) ==
    IF Len(s) = 0 THEN 0
    ELSE 10 * DigitsValue(SubSeq(s, 1, Len(s) - 1)) + (s[Len(s)] - 48)

\* from_str::<uint> / from_str::<u64>: Some(value) for a non-empty string of
\* decimal digits, None otherwise.  (Values near the type's maximum are
\* outside the inputs of this model.)
FromStrUint(s) ==
    IF Len(s) > 0 /\ \A i \in 1 .. Len(s) : s[i] \in Digits
    THEN Some(DigitsValue(s))
    ELSE None

\* from_str::<RolloverMethod>
FromStrRollover(s) ==
    IF s = <<48>> THEN Some("Zero")
    ELSE IF s = <<49>> THEN Some("One")
    ELSE None

\* RolloverMethod as u16, and its Show text
RolloverAsU16(r) == IF r = "One" THEN 1 ELSE 0

RolloverToStr(r) == IF r = "One" THEN <<49>> ELSE <<48>>

\* ------------------------------------------------------------------------
\* Packets
\* ------------------------------------------------------------------------

ReadRequest(filename, mode, opts) ==
    [op |-> "RRQ", filename |-> filename, mode |-> mode, opts |-> opts]

WriteRequest(filename, mode, opts) ==
    [op |-> "WRQ", filename |-> filename, mode |-> mode, opts |-> opts]

Data(block_id, data) == [op |-> "DATA", block_id |-> block_id, data |-> data]

Acknowledgment(block_id) == [op |-> "ACK", block_id |-> block_id]

Error(code, msg) == [op |-> "ERROR", code |-> code, msg |-> msg]

OptionAcknowledgment(opts) == [op |-> "OACK", opts |-> opts]

is_option_ack(p) == p.op = "OACK"

\* Packet::to_ioerror, applied to an Error packet
to_ioerror(p) ==
    [kind |-> "OtherIoError", desc |-> "tftp protocol error", detail |-> Some(p.msg)]

\* ------------------------------------------------------------------------
\* TransferOptions
\* ------------------------------------------------------------------------

DefaultOptions ==
    [mode |-> "octet",
     block_size |-> DEFAULT_BLOCK_SIZE,
     transfer_size |-> None,
     receive_timeout |-> 5000,
     resend_timeout |-> 1000,
     rollover |-> None]

\* HashMap::find
Find(h, key) ==
    LET hit == {p \in h : p[1] = key}
    IN IF hit = {} THEN None ELSE Some((CHOOSE p \in hit : TRUE)[2])

Keys(h) == {p[1] : p \in h}

\* find_as::<uint>
find_as_uint(h, key) ==
    IF IsSome(Find(h, key)) THEN FromStrUint(Unwrap(Find(h, key))) ELSE None

\* find_as::<RolloverMethod>
find_as_rollover(h, key) ==
    IF IsSome(Find(h, key)) THEN FromStrRollover(Unwrap(Find(h, key))) ELSE None

unwrap_or(o, dflt) == IF IsSome(o) THEN Unwrap(o) ELSE dflt

\* Faulty variant of from_map: takes the timeout option for the receive
\* timeout.
from_map_TimeoutIsReceive(opts) ==
    [mode |-> DefaultOptions.mode,
     block_size |->
        IF KeyBlksize \in Keys(opts)
        THEN unwrap_or(find_as_uint(opts, KeyBlksize), DefaultOptions.block_size)
        ELSE DefaultOptions.block_size,
     transfer_size |->
        IF KeyTsize \in Keys(opts)
        THEN find_as_uint(opts, KeyTsize)
        ELSE DefaultOptions.transfer_size,
     receive_timeout |->
        IF KeyTimeout \in Keys(opts)
        THEN unwrap_or(find_as_uint(opts, KeyTimeout), DefaultOptions.receive_timeout)
        ELSE DefaultOptions.receive_timeout,
     resend_timeout |-> DefaultOptions.resend_timeout,
     rollover |->
        IF KeyRollover \in Keys(opts)
        THEN find_as_rollover(opts, KeyRollover)
        ELSE DefaultOptions.rollover]

\* Faulty variant of from_map: a block size of zero is not taken, the
\* default stays.
from_map_ZeroIsDefault(opts) ==
    [mode |-> DefaultOptions.mode,
     block_size |->
        IF KeyBlksize \in Keys(opts)
           /\ unwrap_or(find_as_uint(opts, KeyBlksize), DefaultOptions.block_size) # 0
        THEN unwrap_or(find_as_uint(opts, KeyBlksize), DefaultOptions.block_size)
        ELSE DefaultOptions.block_size,
     transfer_size |->
        IF KeyTsize \in Keys(opts)
        THEN find_as_uint(opts, KeyTsize)
        ELSE DefaultOptions.transfer_size,
     receive_timeout |-> DefaultOptions.receive_timeout,
     resend_timeout |->
        IF KeyTimeout \in Keys(opts)
        THEN unwrap_or(find_as_uint(opts, KeyTimeout), DefaultOptions.resend_timeout)
        ELSE DefaultOptions.resend_timeout,
     rollover |->
        IF KeyRollover \in Keys(opts)
        THEN find_as_rollover(opts, KeyRollover)
        ELSE DefaultOptions.rollover]

\* TransferOptions::from_map.  Every recognized key sets its own field only,
\* so the iteration order of the keys does not matter.
from_map(opts) ==
    [mode |-> DefaultOptions.mode,
     block_size |->
        IF KeyBlksize \in Keys(opts)
        THEN unwrap_or(find_as_uint(opts, KeyBlksize), DefaultOptions.block_size)
        ELSE DefaultOptions.block_size,
     transfer_size |->
        IF KeyTsize \in Keys(opts)
        THEN find_as_uint(opts, KeyTsize)
        ELSE DefaultOptions.transfer_size,
     receive_timeout |-> DefaultOptions.receive_timeout,
     resend_timeout |->
        IF KeyTimeout \in Keys(opts)
        THEN unwrap_or(find_as_uint(opts, KeyTimeout), DefaultOptions.resend_timeout)
        ELSE DefaultOptions.resend_timeout,
     rollover |->
        IF KeyRollover \in Keys(opts)
        THEN find_as_rollover(opts, KeyRollover)
        ELSE DefaultOptions.rollover]

\* Faulty variant of to_options: writes the block size whatever it is.
to_options_NoSuppression(o) ==
    {<<KeyBlksize, ToStr(o.block_size)>>}
    \cup
    (IF o.resend_timeout # DefaultOptions.resend_timeout
     THEN {<<KeyTimeout, ToStr(o.resend_timeout)>>} ELSE {})
    \cup
    (IF o.transfer_size # DefaultOptions.transfer_size
     THEN {<<KeyTsize, ToStr(Unwrap(o.transfer_size))>>} ELSE {})
    \cup
    (IF o.rollover # DefaultOptions.rollover
     THEN {<<KeyRollover, RolloverToStr(Unwrap(o.rollover))>>} ELSE {})

\* TransferOptions::to_options (with insert_to and insert_to_opt)
to_options(o) ==
    (IF o.block_size # DefaultOptions.block_size
     THEN {<<KeyBlksize, ToStr(o.block_size)>>} ELSE {})
    \cup
    (IF o.resend_timeout # DefaultOptions.resend_timeout
     THEN {<<KeyTimeout, ToStr(o.resend_timeout)>>} ELSE {})
    \cup
    (IF o.transfer_size # DefaultOptions.transfer_size
     THEN {<<KeyTsize, ToStr(Unwrap(o.transfer_size))>>} ELSE {})
    \cup
    (IF o.rollover # DefaultOptions.rollover
     THEN {<<KeyRollover, RolloverToStr(Unwrap(o.rollover))>>} ELSE {})

\* ------------------------------------------------------------------------
\* IoResult, IoError and LoopControl
\* ------------------------------------------------------------------------

IoError(kind, desc, detail) == [kind |-> kind, desc |-> desc, detail |-> detail]

Ok == [tag |-> "Ok", err |-> None]

Err(e) == [tag |-> "Err", err |-> Some(e)]

\* The engine has not returned yet.
Running == [tag |-> "Running", err |-> None]

Normal == [kind |-> "Normal", v |-> None]

Break == [kind |-> "Break", v |-> None]

Continue == [kind |-> "Continue", v |-> None]

Return(v) == [kind |-> "Return", v |-> Some(v)]

\* The error of receive_loop on a receive-timeout
ErrTimeout == IoError("ConnectionAborted", "Connection timeout", None)

\* The errors the caller's sink and source may answer with (their kind is the
\* collaborator's choice; EndOfFile is the one kind the engine looks at).
ErrSink == IoError("OtherIoError", "sink write failed", None)

ErrSource == IoError("OtherIoError", "source read failed", None)

\* ------------------------------------------------------------------------
\* The block counter
\* ------------------------------------------------------------------------

\* Faulty variant of the counter step: always the wrapping increment, the
\* rollover option is not looked at.
advance_id_NoRollover(current_id, rollover) == (current_id + 1) % (U16_MAX + 1)

\* The counter step of both roles: 65535 with rollover Some(One) becomes
\* `rollover as u16`; otherwise `current_id += 1` on a u16, which wraps.
advance_id(current_id, rollover) ==
    IF current_id = U16_MAX /\ rollover = Some("One")
    THEN (IF IsSome(rollover) THEN RolloverAsU16(Unwrap(rollover)) ELSE 0)
    ELSE (current_id + 1) % (U16_MAX + 1)

\* ------------------------------------------------------------------------
\* The caller's source (PUT): a Reader over a byte stream
\* ------------------------------------------------------------------------

Min(a, b) == IF a < b THEN a ELSE b

Remaining(r) == Len(r.buf) - r.pos

\* What one Reader::read into a buffer of n bytes may answer:
\*   "fill"   Ok(min(n, remaining)) bytes, at least one
\*   "short"  Ok(1) although more than one byte was asked for and is left
\*   "zero"   Ok(0): the stream is exhausted, or the buffer is empty
\*   "eof"    Err(EndOfFile): the stream is exhausted
\*   "error"  Err of another kind
ReadOutcomes(r, n) ==
    (IF Min(n, Remaining(r)) >= 1 THEN {"fill"} ELSE {})
    \cup (IF Min(n, Remaining(r)) >= 2 THEN {"short"} ELSE {})
    \cup (IF Min(n, Remaining(r)) = 0 THEN {"zero"} ELSE {})
    \cup (IF Remaining(r) = 0 THEN {"eof"} ELSE {})
    \cup {"error"}

ReadLen(r, n, outcome) ==
    IF outcome = "fill" THEN Min(n, Remaining(r))
    ELSE IF outcome = "short" THEN 1
    ELSE 0

\* Faulty variant of read_block: the EndOfFile error is returned like any
\* other error.
read_block_EofIsError(r, block_size, outcome) ==
    IF outcome \in {"error", "eof"}
    THEN [r |-> [r EXCEPT !.reads = @ + 1], ok |-> FALSE, data |-> <<>>]
    ELSE [r |-> [r EXCEPT !.pos = @ + ReadLen(r, block_size, outcome),
                          !.reads = @ + 1],
          ok |-> TRUE,
          data |-> SubSeq(r.buf, r.pos + 1, r.pos + ReadLen(r, block_size, outcome))]

\* read_block: one read; a short count is returned as it is, EndOfFile
\* becomes an empty block, any other error is returned.
read_block(r, block_size, outcome) ==
    IF outcome = "error"
    THEN [r |-> [r EXCEPT !.reads = @ + 1], ok |-> FALSE, data |-> <<>>]
    ELSE [r |-> [r EXCEPT !.pos = @ + ReadLen(r, block_size, outcome),
                          !.reads = @ + 1],
          ok |-> TRUE,
          data |-> SubSeq(r.buf, r.pos + 1, r.pos + ReadLen(r, block_size, outcome))]

\* ------------------------------------------------------------------------
\* GET: the callbacks of get_internal
\* ------------------------------------------------------------------------

init_get(dd, remote_addr) ==
    [dd EXCEPT !.writer_chan =
        Append(@, <<remote_addr, ReadRequest(StrPath, dd.opts.mode, to_options(dd.opts))>>)]

loop_start_get(dd) == [d |-> dd, ctl |-> Normal]

\* Faulty variants of the GET packet handler. Each differs from
\* handle_packet_get in one place; the properties of the GET role tell
\* every one of them from the handler.

\* Acknowledges the counter after the step instead of the block received.
handle_packet_get_AckNext(dd, first_packet, packet, reset, write_ok) ==
    IF packet.op = "OACK" /\ first_packet THEN
        LET d1 == [dd EXCEPT !.opts = from_map(packet.opts)]
        IN [d |-> [d1 EXCEPT !.writer_chan =
                        Append(@, <<d1.remote_addr, Acknowledgment(0)>>)],
            reset |-> reset,
            ctl |-> Normal]
    ELSE IF packet.op = "DATA" /\ packet.block_id = dd.current_id THEN
        LET d1 == [dd EXCEPT !.current_id = advance_id(dd.current_id, dd.opts.rollover)]
        IN IF ~write_ok
           THEN [d |-> d1, reset |-> TRUE, ctl |-> Return(Err(ErrSink))]
           ELSE [d |-> [d1 EXCEPT
                          !.path_handle = @ \o packet.data,
                          !.writer_chan =
                              Append(@, <<d1.remote_addr, Acknowledgment(d1.current_id)>>)],
                 reset |-> TRUE,
                 ctl |-> IF Len(packet.data) < d1.opts.block_size THEN Break ELSE Normal]
    ELSE [d |-> dd, reset |-> reset, ctl |-> Normal]

\* Writes and acknowledges a Data block of the previous id again.
handle_packet_get_Stale(dd, first_packet, packet, reset, write_ok) ==
    IF packet.op = "OACK" /\ first_packet THEN
        LET d1 == [dd EXCEPT !.opts = from_map(packet.opts)]
        IN [d |-> [d1 EXCEPT !.writer_chan =
                        Append(@, <<d1.remote_addr, Acknowledgment(0)>>)],
            reset |-> reset,
            ctl |-> Normal]
    ELSE IF packet.op = "DATA" /\ packet.block_id = dd.current_id THEN
        LET d1 == [dd EXCEPT !.current_id = advance_id(dd.current_id, dd.opts.rollover)]
        IN IF ~write_ok
           THEN [d |-> d1, reset |-> TRUE, ctl |-> Return(Err(ErrSink))]
           ELSE [d |-> [d1 EXCEPT
                          !.path_handle = @ \o packet.data,
                          !.writer_chan =
                              Append(@, <<d1.remote_addr, Acknowledgment(packet.block_id)>>)],
                 reset |-> TRUE,
                 ctl |-> IF Len(packet.data) < d1.opts.block_size THEN Break ELSE Normal]
    ELSE IF packet.op = "DATA" /\ packet.block_id + 1 = dd.current_id THEN
        [d |-> [dd EXCEPT
                  !.path_handle = @ \o packet.data,
                  !.writer_chan =
                      Append(@, <<dd.remote_addr, Acknowledgment(packet.block_id)>>)],
         reset |-> reset,
         ctl |-> Normal]
    ELSE [d |-> dd, reset |-> reset, ctl |-> Normal]

\* Ends the transfer on a block of exactly the block size too.
handle_packet_get_FullEnds(dd, first_packet, packet, reset, write_ok) ==
    IF packet.op = "OACK" /\ first_packet THEN
        LET d1 == [dd EXCEPT !.opts = from_map(packet.opts)]
        IN [d |-> [d1 EXCEPT !.writer_chan =
                        Append(@, <<d1.remote_addr, Acknowledgment(0)>>)],
            reset |-> reset,
            ctl |-> Normal]
    ELSE IF packet.op = "DATA" /\ packet.block_id = dd.current_id THEN
        LET d1 == [dd EXCEPT !.current_id = advance_id(dd.current_id, dd.opts.rollover)]
        IN IF ~write_ok
           THEN [d |-> d1, reset |-> TRUE, ctl |-> Return(Err(ErrSink))]
           ELSE [d |-> [d1 EXCEPT
                          !.path_handle = @ \o packet.data,
                          !.writer_chan =
                              Append(@, <<d1.remote_addr, Acknowledgment(packet.block_id)>>)],
                 reset |-> TRUE,
                 ctl |-> IF Len(packet.data) <= d1.opts.block_size THEN Break ELSE Normal]
    ELSE [d |-> dd, reset |-> reset, ctl |-> Normal]

\* Takes an option acknowledgment at any time, not only as first packet.
handle_packet_get_LateOack(dd, first_packet, packet, reset, write_ok) ==
    IF packet.op = "OACK" THEN
        LET d1 == [dd EXCEPT !.opts = from_map(packet.opts)]
        IN [d |-> [d1 EXCEPT !.writer_chan =
                        Append(@, <<d1.remote_addr, Acknowledgment(0)>>)],
            reset |-> reset,
            ctl |-> Normal]
    ELSE IF packet.op = "DATA" /\ packet.block_id = dd.current_id THEN
        LET d1 == [dd EXCEPT !.current_id = advance_id(dd.current_id, dd.opts.rollover)]
        IN IF ~write_ok
           THEN [d |-> d1, reset |-> TRUE, ctl |-> Return(Err(ErrSink))]
           ELSE [d |-> [d1 EXCEPT
                          !.path_handle = @ \o packet.data,
                          !.writer_chan =
                              Append(@, <<d1.remote_addr, Acknowledgment(packet.block_id)>>)],
                 reset |-> TRUE,
                 ctl |-> IF Len(packet.data) < d1.opts.block_size THEN Break ELSE Normal]
    ELSE [d |-> dd, reset |-> reset, ctl |-> Normal]

\* Acknowledges the block before the sink has taken it.
handle_packet_get_AckBeforeWrite(dd, first_packet, packet, reset, write_ok) ==
    IF packet.op = "OACK" /\ first_packet THEN
        LET d1 == [dd EXCEPT !.opts = from_map(packet.opts)]
        IN [d |-> [d1 EXCEPT !.writer_chan =
                        Append(@, <<d1.remote_addr, Acknowledgment(0)>>)],
            reset |-> reset,
            ctl |-> Normal]
    ELSE IF packet.op = "DATA" /\ packet.block_id = dd.current_id THEN
        LET d1 == [dd EXCEPT !.current_id = advance_id(dd.current_id, dd.opts.rollover),
                             !.writer_chan =
                                 Append(@, <<dd.remote_addr, Acknowledgment(packet.block_id)>>)]
        IN IF ~write_ok
           THEN [d |-> d1, reset |-> TRUE, ctl |-> Return(Err(ErrSink))]
           ELSE [d |-> [d1 EXCEPT !.path_handle = @ \o packet.data],
                 reset |-> TRUE,
                 ctl |-> IF Len(packet.data) < d1.opts.block_size THEN Break ELSE Normal]
    ELSE [d |-> dd, reset |-> reset, ctl |-> Normal]

\* Acknowledges once more a Data block that was acknowledged before, when
\* the peer sends it again.
handle_packet_get_ReAcks(dd, first_packet, packet, reset, write_ok) ==
    IF packet.op = "OACK" /\ first_packet THEN
        LET d1 == [dd EXCEPT !.opts = from_map(packet.opts)]
        IN [d |-> [d1 EXCEPT !.writer_chan =
                        Append(@, <<d1.remote_addr, Acknowledgment(0)>>)],
            reset |-> reset,
            ctl |-> Normal]
    ELSE IF packet.op = "DATA" /\ packet.block_id = dd.current_id THEN
        LET d1 == [dd EXCEPT !.current_id = advance_id(dd.current_id, dd.opts.rollover)]
        IN IF ~write_ok
           THEN [d |-> d1, reset |-> TRUE, ctl |-> Return(Err(ErrSink))]
           ELSE [d |-> [d1 EXCEPT
                          !.path_handle = @ \o packet.data,
                          !.writer_chan =
                              Append(@, <<d1.remote_addr, Acknowledgment(packet.block_id)>>)],
                 reset |-> TRUE,
                 ctl |-> IF Len(packet.data) < d1.opts.block_size THEN Break ELSE Normal]
    ELSE IF packet.op = "DATA" /\ packet.block_id + 1 = dd.current_id THEN
        [d |-> [dd EXCEPT !.writer_chan =
                    Append(@, <<dd.remote_addr, Acknowledgment(packet.block_id)>>)],
         reset |-> reset,
         ctl |-> Normal]
    ELSE [d |-> dd, reset |-> reset, ctl |-> Normal]

\* Keeps the caller's mode and receive timeout when it adopts the options of
\* an option acknowledgment.
handle_packet_get_MergesOack(dd, first_packet, packet, reset, write_ok) ==
    IF packet.op = "OACK" /\ first_packet THEN
        LET d1 == [dd EXCEPT !.opts = [from_map(packet.opts) EXCEPT
                                          !.mode = dd.opts.mode,
                                          !.receive_timeout = dd.opts.receive_timeout]]
        IN [d |-> [d1 EXCEPT !.writer_chan =
                        Append(@, <<d1.remote_addr, Acknowledgment(0)>>)],
            reset |-> reset,
            ctl |-> Normal]
    ELSE IF packet.op = "DATA" /\ packet.block_id = dd.current_id THEN
        LET d1 == [dd EXCEPT !.current_id = advance_id(dd.current_id, dd.opts.rollover)]
        IN IF ~write_ok
           THEN [d |-> d1, reset |-> TRUE, ctl |-> Return(Err(ErrSink))]
           ELSE [d |-> [d1 EXCEPT
                          !.path_handle = @ \o packet.data,
                          !.writer_chan =
                              Append(@, <<d1.remote_addr, Acknowledgment(packet.block_id)>>)],
                 reset |-> TRUE,
                 ctl |-> IF Len(packet.data) < d1.opts.block_size THEN Break ELSE Normal]
    ELSE [d |-> dd, reset |-> reset, ctl |-> Normal]

\* write_ok: whether the sink accepts the write of this payload.
handle_packet_get(dd, first_packet, packet, reset, write_ok) ==
    IF packet.op = "OACK" /\ first_packet THEN
        LET d1 == [dd EXCEPT !.opts = from_map(packet.opts)]
        IN [d |-> [d1 EXCEPT !.writer_chan =
                        Append(@, <<d1.remote_addr, Acknowledgment(0)>>)],
            reset |-> reset,
            ctl |-> Normal]
    ELSE IF packet.op = "DATA" /\ packet.block_id = dd.current_id THEN
        LET d1 == [dd EXCEPT !.current_id = advance_id(dd.current_id, dd.opts.rollover)]
        IN IF ~write_ok
           THEN [d |-> d1, reset |-> TRUE, ctl |-> Return(Err(ErrSink))]
           ELSE [d |-> [d1 EXCEPT
                          !.path_handle = @ \o packet.data,
                          !.writer_chan =
                              Append(@, <<d1.remote_addr, Acknowledgment(packet.block_id)>>)],
                 reset |-> TRUE,
                 ctl |-> IF Len(packet.data) < d1.opts.block_size THEN Break ELSE Normal]
    ELSE [d |-> dd, reset |-> reset, ctl |-> Normal]

\* ------------------------------------------------------------------------
\* PUT: the callbacks of put_internal
\* ------------------------------------------------------------------------

init_put(dd) ==
    [dd EXCEPT !.writer_chan =
        Append(@, <<dd.remote_addr,
                    WriteRequest(StrPath, dd.opts.mode, to_options(dd.opts))>>)]

\* Faulty variant of the PUT loop_start: reads the source again on every
\* emission instead of keeping the block it holds.
loop_start_put_Reread(dd, outcome) ==
    IF dd.resend THEN
        LET rb == read_block(dd.path_handle, dd.opts.block_size, outcome)
            d1 == [dd EXCEPT !.path_handle = rb.r, !.data = Some(rb.data)]
        IN IF ~rb.ok
           THEN [d |-> [dd EXCEPT !.path_handle = rb.r], ctl |-> Return(Err(ErrSource))]
           ELSE [d |-> [d1 EXCEPT
                          !.writer_chan =
                              Append(@, <<d1.remote_addr,
                                          Data(d1.current_id, Unwrap(d1.data))>>),
                          !.resend = FALSE],
                 ctl |-> Normal]
    ELSE [d |-> dd, ctl |-> Normal]

\* outcome: what the source answers if this call reads a block.
loop_start_put(dd, outcome) ==
    IF dd.resend THEN
        LET rb == read_block(dd.path_handle, dd.opts.block_size, outcome)
            d1 == IF IsSome(dd.data) THEN dd
                  ELSE [dd EXCEPT !.path_handle = rb.r, !.data = Some(rb.data)]
        IN IF ~IsSome(dd.data) /\ ~rb.ok
           THEN [d |-> [dd EXCEPT !.path_handle = rb.r], ctl |-> Return(Err(ErrSource))]
           ELSE [d |-> [d1 EXCEPT
                          !.writer_chan =
                              Append(@, <<d1.remote_addr,
                                          Data(d1.current_id, Unwrap(d1.data))>>),
                          !.resend = FALSE],
                 ctl |-> Normal]
    ELSE [d |-> dd, ctl |-> Normal]

\* Faulty variants of the PUT packet handler.

\* Sends the block again when the acknowledgment of the previous block
\* arrives once more.
handle_packet_put_ResendOnDup(dd, first_packet, packet, reset) ==
    IF packet.op = "OACK" /\ first_packet THEN
        [d |-> [dd EXCEPT !.opts = from_map(packet.opts),
                          !.current_id = (@ + 1) % (U16_MAX + 1),
                          !.resend = TRUE],
         reset |-> reset,
         ctl |-> Normal]
    ELSE IF packet.op = "ACK" /\ packet.block_id = dd.current_id THEN
        IF IsSome(dd.data) /\ Len(Unwrap(dd.data)) < dd.opts.block_size
        THEN [d |-> dd, reset |-> reset, ctl |-> Break]
        ELSE [d |-> [dd EXCEPT
                       !.current_id = advance_id(dd.current_id, dd.opts.rollover),
                       !.resend = TRUE,
                       !.data = None],
              reset |-> TRUE,
              ctl |-> Normal]
    ELSE IF packet.op = "ACK" /\ packet.block_id + 1 = dd.current_id THEN
        [d |-> [dd EXCEPT !.resend = TRUE], reset |-> reset, ctl |-> Normal]
    ELSE [d |-> dd, reset |-> reset, ctl |-> Normal]

\* Takes an option acknowledgment at any time, not only as first packet.
handle_packet_put_LateOack(dd, first_packet, packet, reset) ==
    IF packet.op = "OACK" THEN
        [d |-> [dd EXCEPT !.opts = from_map(packet.opts),
                          !.current_id = (@ + 1) % (U16_MAX + 1),
                          !.resend = TRUE],
         reset |-> reset,
         ctl |-> Normal]
    ELSE IF packet.op = "ACK" /\ packet.block_id = dd.current_id THEN
        IF IsSome(dd.data) /\ Len(Unwrap(dd.data)) < dd.opts.block_size
        THEN [d |-> dd, reset |-> reset, ctl |-> Break]
        ELSE [d |-> [dd EXCEPT
                       !.current_id = advance_id(dd.current_id, dd.opts.rollover),
                       !.resend = TRUE,
                       !.data = None],
              reset |-> TRUE,
              ctl |-> Normal]
    ELSE [d |-> dd, reset |-> reset, ctl |-> Normal]

\* Asks for the receive timer to be re-armed on the option acknowledgment.
handle_packet_put_OackResets(dd, first_packet, packet, reset) ==
    IF packet.op = "OACK" /\ first_packet THEN
        [d |-> [dd EXCEPT !.opts = from_map(packet.opts),
                          !.current_id = (@ + 1) % (U16_MAX + 1),
                          !.resend = TRUE],
         reset |-> TRUE,
         ctl |-> Normal]
    ELSE IF packet.op = "ACK" /\ packet.block_id = dd.current_id THEN
        IF IsSome(dd.data) /\ Len(Unwrap(dd.data)) < dd.opts.block_size
        THEN [d |-> dd, reset |-> reset, ctl |-> Break]
        ELSE [d |-> [dd EXCEPT
                       !.current_id = advance_id(dd.current_id, dd.opts.rollover),
                       !.resend = TRUE,
                       !.data = None],
              reset |-> TRUE,
              ctl |-> Normal]
    ELSE [d |-> dd, reset |-> reset, ctl |-> Normal]

\* Keeps the block it holds when the acknowledgment arrives, and sends it
\* again under the next block id.
handle_packet_put_KeepsData(dd, first_packet, packet, reset) ==
    IF packet.op = "OACK" /\ first_packet THEN
        [d |-> [dd EXCEPT !.opts = from_map(packet.opts),
                          !.current_id = (@ + 1) % (U16_MAX + 1),
                          !.resend = TRUE],
         reset |-> reset,
         ctl |-> Normal]
    ELSE IF packet.op = "ACK" /\ packet.block_id = dd.current_id THEN
        IF IsSome(dd.data) /\ Len(Unwrap(dd.data)) < dd.opts.block_size
        THEN [d |-> dd, reset |-> reset, ctl |-> Break]
        ELSE [d |-> [dd EXCEPT
                       !.current_id = advance_id(dd.current_id, dd.opts.rollover),
                       !.resend = TRUE],
              reset |-> TRUE,
              ctl |-> Normal]
    ELSE [d |-> dd, reset |-> reset, ctl |-> Normal]

handle_packet_put(dd, first_packet, packet, reset) ==
    IF packet.op = "OACK" /\ first_packet THEN
        [d |-> [dd EXCEPT !.opts = from_map(packet.opts),
                          !.current_id = (@ + 1) % (U16_MAX + 1),
                          !.resend = TRUE],
         reset |-> reset,
         ctl |-> Normal]
    ELSE IF packet.op = "ACK" /\ packet.block_id = dd.current_id THEN
        IF IsSome(dd.data) /\ Len(Unwrap(dd.data)) < dd.opts.block_size
        THEN [d |-> dd, reset |-> reset, ctl |-> Break]
        ELSE [d |-> [dd EXCEPT
                       !.current_id = advance_id(dd.current_id, dd.opts.rollover),
                       !.resend = TRUE,
                       !.data = None],
              reset |-> TRUE,
              ctl |-> Normal]
    ELSE [d |-> dd, reset |-> reset, ctl |-> Normal]

\* ------------------------------------------------------------------------
\* receive_loop: the part of one iteration that handles a received packet
\* ------------------------------------------------------------------------

handle_packet(rl, dd, first_packet, packet, reset, write_ok) ==
    IF rl = "get"
    THEN handle_packet_get(dd, first_packet, packet, reset, write_ok)
    ELSE handle_packet_put(dd, first_packet, packet, reset)

\* Faulty variants of on_packet.

\* Keeps the options the caller asked for when the first packet is not an
\* option acknowledgment.
on_packet_KeepsRequested(rl, dd, fst, reset, addr, packet, write_ok) ==
    IF addr # dd.remote_addr /\ ~fst THEN
        [d |-> [dd EXCEPT !.writer_chan =
                    Append(@, <<addr, Error("UnknownTransferId", StrUnknownTid)>>)],
         first |-> fst, reset |-> reset, ctl |-> Normal]
    ELSE IF fst /\ addr.ip # dd.remote_addr.ip THEN
        [d |-> dd, first |-> fst, reset |-> reset, ctl |-> Continue]
    ELSE
        LET d1 == IF fst THEN [dd EXCEPT !.remote_addr = addr] ELSE dd
            d2 == d1
            h  == handle_packet(rl, d2, fst, packet, reset, write_ok)
        IN IF packet.op = "ERROR"
           THEN [d |-> d1, first |-> FALSE, reset |-> reset,
                 ctl |-> Return(Err(to_ioerror(packet)))]
           ELSE [d |-> h.d, first |-> FALSE, reset |-> h.reset, ctl |-> h.ctl]

\* Takes an Error packet as fatal before looking at its source address.
on_packet_ForeignFatal(rl, dd, fst, reset, addr, packet, write_ok) ==
    IF packet.op = "ERROR" THEN
        [d |-> dd, first |-> fst, reset |-> reset,
         ctl |-> Return(Err(to_ioerror(packet)))]
    ELSE IF addr # dd.remote_addr /\ ~fst THEN
        [d |-> [dd EXCEPT !.writer_chan =
                    Append(@, <<addr, Error("UnknownTransferId", StrUnknownTid)>>)],
         first |-> fst, reset |-> reset, ctl |-> Normal]
    ELSE IF fst /\ addr.ip # dd.remote_addr.ip THEN
        [d |-> dd, first |-> fst, reset |-> reset, ctl |-> Continue]
    ELSE
        LET d1 == IF fst THEN [dd EXCEPT !.remote_addr = addr] ELSE dd
            d2 == IF fst /\ ~is_option_ack(packet)
                  THEN [d1 EXCEPT !.opts = DefaultOptions] ELSE d1
            h  == handle_packet(rl, d2, fst, packet, reset, write_ok)
        IN IF packet.op = "ERROR"
           THEN [d |-> d1, first |-> FALSE, reset |-> reset,
                 ctl |-> Return(Err(to_ioerror(packet)))]
           ELSE [d |-> h.d, first |-> FALSE, reset |-> h.reset, ctl |-> h.ctl]

\* Binds to the source of the first packet whatever its IP.
on_packet_BindsAnyIp(rl, dd, fst, reset, addr, packet, write_ok) ==
    IF addr # dd.remote_addr /\ ~fst THEN
        [d |-> [dd EXCEPT !.writer_chan =
                    Append(@, <<addr, Error("UnknownTransferId", StrUnknownTid)>>)],
         first |-> fst, reset |-> reset, ctl |-> Normal]
    ELSE
        LET d1 == IF fst THEN [dd EXCEPT !.remote_addr = addr] ELSE dd
            d2 == IF fst /\ ~is_option_ack(packet)
                  THEN [d1 EXCEPT !.opts = DefaultOptions] ELSE d1
            h  == handle_packet(rl, d2, fst, packet, reset, write_ok)
        IN IF packet.op = "ERROR"
           THEN [d |-> d1, first |-> FALSE, reset |-> reset,
                 ctl |-> Return(Err(to_ioerror(packet)))]
           ELSE [d |-> h.d, first |-> FALSE, reset |-> h.reset, ctl |-> h.ctl]

\* Binds again to the source of every later packet that comes from the
\* bound IP.
on_packet_Rebinds(rl, dd, fst, reset, addr, packet, write_ok) ==
    IF addr.ip # dd.remote_addr.ip /\ ~fst THEN
        [d |-> [dd EXCEPT !.writer_chan =
                    Append(@, <<addr, Error("UnknownTransferId", StrUnknownTid)>>)],
         first |-> fst, reset |-> reset, ctl |-> Normal]
    ELSE IF fst /\ addr.ip # dd.remote_addr.ip THEN
        [d |-> dd, first |-> fst, reset |-> reset, ctl |-> Continue]
    ELSE
        LET d1 == [dd EXCEPT !.remote_addr = addr]
            d2 == IF fst /\ ~is_option_ack(packet)
                  THEN [d1 EXCEPT !.opts = DefaultOptions] ELSE d1
            h  == handle_packet(rl, d2, fst, packet, reset, write_ok)
        IN IF packet.op = "ERROR"
           THEN [d |-> d1, first |-> FALSE, reset |-> reset,
                 ctl |-> Return(Err(to_ioerror(packet)))]
           ELSE [d |-> h.d, first |-> FALSE, reset |-> h.reset, ctl |-> h.ctl]

\* Hands an Error packet to the role's handler like any other packet.
on_packet_ErrorHandled(rl, dd, fst, reset, addr, packet, write_ok) ==
    IF addr # dd.remote_addr /\ ~fst THEN
        [d |-> [dd EXCEPT !.writer_chan =
                    Append(@, <<addr, Error("UnknownTransferId", StrUnknownTid)>>)],
         first |-> fst, reset |-> reset, ctl |-> Normal]
    ELSE IF fst /\ addr.ip # dd.remote_addr.ip THEN
        [d |-> dd, first |-> fst, reset |-> reset, ctl |-> Continue]
    ELSE
        LET d1 == IF fst THEN [dd EXCEPT !.remote_addr = addr] ELSE dd
            d2 == IF fst /\ ~is_option_ack(packet)
                  THEN [d1 EXCEPT !.opts = DefaultOptions] ELSE d1
            h  == handle_packet(rl, d2, fst, packet, reset, write_ok)
        IN IF FALSE
           THEN [d |-> d1, first |-> FALSE, reset |-> reset,
                 ctl |-> Return(Err(to_ioerror(packet)))]
           ELSE [d |-> h.d, first |-> FALSE, reset |-> h.reset, ctl |-> h.ctl]

\* From `let (addr, packet) = d.reader_port.recv()` to the end of the loop
\* body: the TID check, the first-packet binding, the Error packet, the reset
\* of refused options and the role's handle_packet.
on_packet(rl, dd, fst, reset, addr, packet, write_ok) ==
    IF addr # dd.remote_addr /\ ~fst THEN
        [d |-> [dd EXCEPT !.writer_chan =
                    Append(@, <<addr, Error("UnknownTransferId", StrUnknownTid)>>)],
         first |-> fst, reset |-> reset, ctl |-> Normal]
    ELSE IF fst /\ addr.ip # dd.remote_addr.ip THEN
        [d |-> dd, first |-> fst, reset |-> reset, ctl |-> Continue]
    ELSE
        LET d1 == IF fst THEN [dd EXCEPT !.remote_addr = addr] ELSE dd
            d2 == IF fst /\ ~is_option_ack(packet)
                  THEN [d1 EXCEPT !.opts = DefaultOptions] ELSE d1
            h  == handle_packet(rl, d2, fst, packet, reset, write_ok)
        IN IF packet.op = "ERROR"
           THEN [d |-> d1, first |-> FALSE, reset |-> reset,
                 ctl |-> Return(Err(to_ioerror(packet)))]
           ELSE [d |-> h.d, first |-> FALSE, reset |-> h.reset, ctl |-> h.ctl]

\* loop_start of the role
loop_start(rl, dd, outcome) ==
    IF rl = "get" THEN loop_start_get(dd) ELSE loop_start_put(dd, outcome)

\* The `resend` argument receive_loop is called with: false by get_internal,
\* true by put_internal.
ResendArg(rl) == rl = "put"

\* ------------------------------------------------------------------------
\* The environment of one run
\* ------------------------------------------------------------------------

ServerAddr == [ip |-> "server", port |-> 69]

\* The address the request is sent to, the server's port for this transfer,
\* and another host
Addrs ==
    {ServerAddr, [ip |-> "server", port |-> 2048], [ip |-> "other", port |-> 69]}

\* A payload or a source of n bytes with recognisable content
Bytes(n) == [i \in 1 .. n |-> (i + n) % 256]

Payloads == {Bytes(n) : n \in {0, 1, 2, DEFAULT_BLOCK_SIZE}}

Sources == {Bytes(n) : n \in {0, 2, DEFAULT_BLOCK_SIZE, DEFAULT_BLOCK_SIZE + 1}}

\* The TransferOptions a caller passes
CallerOptions ==
    {[DefaultOptions EXCEPT !.block_size = 2, !.receive_timeout = 2000],
     [DefaultOptions EXCEPT !.mode = "netascii", !.rollover = Some("One"),
                            !.receive_timeout = 2000, !.resend_timeout = 3000]}

\* The option maps a server acknowledges
OackMaps ==
    {{<<KeyBlksize, ToStr(2)>>},
     {<<KeyBlksize, ToStr(1)>>, <<KeyRollover, ToStr(1)>>},
     {<<KeyTimeout, ToStr(2000)>>, <<KeyRollover, ToStr(0)>>}}

\* The block ids of the inbound packets when the counter is cur and n
\* packets were received: the counter, the ids before and after it, and the
\* ids of an in-order run
BlockIds(cur, n) ==
    {(cur + U16_MAX) % (U16_MAX + 1), cur, (cur + 1) % (U16_MAX + 1), n, n + 1}

InPackets(cur, n) ==
    {Data(i, p) : i \in BlockIds(cur, n), p \in Payloads}
    \cup {Acknowledgment(i) : i \in BlockIds(cur, n)}
    \cup {OptionAcknowledgment(m) : m \in OackMaps}
    \cup {Error("FileNotFound", <<110, 111>>)}
    \cup {ReadRequest(StrPath, "octet", {})}

\* Time passes in steps of this many milliseconds.
TickMs == DefaultOptions.resend_timeout

Elapse(t) == IF t > TickMs THEN t - TickMs ELSE 0

\* A timer armed with oneshot(ms), and the resend timer armed with u64::MAX,
\* which does not expire within a transfer.
Armed(ms) == [inf |-> FALSE, left |-> ms]

Never == [inf |-> TRUE, left |-> 0]

Expired(t) == ~t.inf /\ t.left = 0

\* ------------------------------------------------------------------------
\* State
\* ------------------------------------------------------------------------

VARIABLES
    role,            \* "get" or "put": which of get_internal, put_internal runs
    call,            \* the arguments of the call: remote_addr, opts
    d,               \* LoopData
    first,           \* receive_loop: first
    timeout,         \* receive_loop: milliseconds left on the receive timer
    resend_timeout,  \* receive_loop: the resend timer of this iteration
    reset_timeout,   \* receive_loop: reset_timeout
    pc,              \* "init", "loop" (top of the loop), "select", "done"
    result,          \* what the engine returned, Running before that
    \* history, for the statements only
    n_recv,          \* packets taken from reader_port so far
    last_event,      \* what the last select of the loop was
    in_order,        \* every event so far was the next in-order packet of the peer
    accepted,        \* GET: the Data packets that were the awaited block of the peer
    arm_count,       \* how often the receive timer was armed
    emitted_cur,     \* PUT: the first Data emitted since the counter last changed
    sink_failed,     \* GET: a sink write was refused
    src_fault,       \* PUT: a source read failed, or was short of the bytes left
    received,        \* (addr, packet) of this iteration's recv(), in brief; None
                     \* in an iteration that has not received
    \* the functions of the codec and of the option registry, applied on
    \* their own
    fn_in,           \* the value the first function is applied to, and the mode
    fn_out,          \* the functions applied so far, each with its result
    \* the writer task of socket_writer, run on its own
    wr               \* its channel, its position and what it has sent

vars == <<role, call, d, first, timeout, resend_timeout, reset_timeout, pc, result,
          n_recv, last_event, in_order, accepted, arm_count, emitted_cur, sink_failed,
          src_fault, received, fn_in, fn_out, wr>>

\* The engine runs: no function is applied on its own.
NoInput == [t |-> "none"]

\* No writer task is looked at.
NoWriter == [pc |-> "none"]

\* LoopData as get_internal and put_internal build it
LoopDataGet(remote_addr, opts) ==
    [remote_addr |-> remote_addr, writer_chan |-> <<>>, opts |-> opts,
     current_id |-> 1, resend |-> TRUE, path_handle |-> <<>>, data |-> None]

LoopDataPut(remote_addr, opts, source) ==
    [remote_addr |-> remote_addr, writer_chan |-> <<>>, opts |-> opts,
     current_id |-> 0, resend |-> FALSE,
     path_handle |-> [buf |-> source, pos |-> 0, reads |-> 0], data |-> None]

Init ==
    /\ role \in {"get", "put"}
    /\ \E o \in CallerOptions : call = [remote_addr |-> ServerAddr, opts |-> o]
    /\ IF role = "get"
       THEN d = LoopDataGet(call.remote_addr, call.opts)
       ELSE \E src \in Sources : d = LoopDataPut(call.remote_addr, call.opts, src)
    /\ first = TRUE
    /\ timeout = 0
    /\ resend_timeout = Never
    /\ reset_timeout = FALSE
    /\ pc = "init"
    /\ result = Running
    /\ n_recv = 0
    /\ last_event = "none"
    /\ in_order = TRUE
    /\ accepted = <<>>
    /\ arm_count = 0
    /\ emitted_cur = None
    /\ sink_failed = FALSE
    /\ src_fault = FALSE
    /\ received = None
    /\ fn_in = NoInput
    /\ fn_out = <<>>
    /\ wr = NoWriter

\* ------------------------------------------------------------------------
\* How the statements name an inbound packet (from the state before it is
\* handled)
\* ------------------------------------------------------------------------

\* What the statements need of a received packet: its kind, and the whole
\* packet if it is an Error.
Brief(packet) == IF packet.op = "ERROR" THEN packet ELSE [op |-> packet.op]

\* The packet passes the TID check: from the bound address, or, as the first
\* packet, from the IP the request was sent to.
FromPeer(addr) ==
    IF first THEN addr.ip = d.remote_addr.ip ELSE addr = d.remote_addr

\* The awaited packet of the role: the Data block (GET) or the
\* Acknowledgment (PUT) whose block id is the current counter.
Awaited(packet) ==
    IF role = "get"
    THEN packet.op = "DATA" /\ packet.block_id = d.current_id
    ELSE packet.op = "ACK" /\ packet.block_id = d.current_id

Classify(addr, packet) ==
    IF ~first /\ addr # d.remote_addr THEN "foreign"
    ELSE IF first /\ addr.ip # d.remote_addr.ip THEN "discarded"
    ELSE IF packet.op = "ERROR" THEN "error"
    ELSE IF Awaited(packet) THEN "progress"
    ELSE IF packet.op = "OACK" /\ first THEN "oack"
    ELSE "ignored"

\* The n-th packet of an in-order run with no option acknowledgment: GET is
\* sent Data(1), Data(2), ...; PUT is sent ACK(0), ACK(1), ...
NextInOrder(addr, packet) ==
    /\ FromPeer(addr)
    /\ IF role = "get"
       THEN packet.op = "DATA" /\ packet.block_id = n_recv + 1
       ELSE packet.op = "ACK" /\ packet.block_id = n_recv

\* ------------------------------------------------------------------------
\* Actions
\* ------------------------------------------------------------------------

\* receive_loop up to `loop`: the timers, `timeout` armed, init(&d).
Start ==
    /\ pc = "init"
    /\ timeout' = d.opts.receive_timeout
    /\ arm_count' = arm_count + 1
    /\ d' = IF role = "get" THEN init_get(d, call.remote_addr) ELSE init_put(d)
    /\ pc' = "loop"
    /\ UNCHANGED <<role, call, first, resend_timeout, reset_timeout, result, n_recv,
                   last_event, in_order, accepted, emitted_cur, sink_failed, src_fault,
                   received, fn_in, fn_out, wr>>

\* The top of an iteration, up to the select: the resend timer is armed,
\* loop_start runs, the receive timer is armed again if reset_timeout is set.
LoopTop ==
    /\ pc = "loop"
    /\ \E outcome \in (IF role = "put" /\ d.resend /\ ~IsSome(d.data)
                       THEN ReadOutcomes(d.path_handle, d.opts.block_size)
                       ELSE {"none"}) :
         LET ls == loop_start(role, d, outcome)
         IN /\ resend_timeout' = IF ResendArg(role)
                                 THEN Armed(d.opts.resend_timeout) ELSE Never
            /\ d' = ls.d
            /\ IF ls.ctl.kind = "Return"
               THEN /\ pc' = "done"
                    /\ result' = Unwrap(ls.ctl.v)
                    /\ UNCHANGED <<timeout, reset_timeout, arm_count>>
               ELSE /\ pc' = "select"
                    /\ result' = result
                    /\ timeout' = IF reset_timeout
                                  THEN ls.d.opts.receive_timeout ELSE timeout
                    /\ arm_count' = IF reset_timeout THEN arm_count + 1 ELSE arm_count
                    /\ reset_timeout' = FALSE
            /\ emitted_cur' =
                 IF Len(ls.d.writer_chan) > Len(d.writer_chan) /\ ~IsSome(emitted_cur)
                 THEN Some(ls.d.writer_chan[Len(ls.d.writer_chan)])
                 ELSE emitted_cur
            /\ src_fault' = (src_fault \/ outcome \in {"short", "error"})
    /\ UNCHANGED <<role, call, first, n_recv, last_event, in_order, accepted,
                   sink_failed, fn_in, fn_out, wr>>
    /\ received' = None

\* Time passes while the engine waits in the select and no timer has fired.
Tick ==
    /\ pc = "select"
    /\ timeout > 0
    /\ ~Expired(resend_timeout)
    /\ timeout' = Elapse(timeout)
    /\ resend_timeout' = IF resend_timeout.inf THEN resend_timeout
                         ELSE Armed(Elapse(resend_timeout.left))
    /\ UNCHANGED <<role, call, d, first, reset_timeout, pc, result, n_recv,
                   last_event, in_order, accepted, arm_count, emitted_cur, sink_failed,
                   src_fault,
                   received, fn_in, fn_out, wr>>

\* Faulty variant of SelectTimeout: the receive timer is handled like the
\* resend timer, the loop goes on.
SelectTimeout_Continue ==
    /\ pc = "select"
    /\ timeout = 0
    /\ d' = [d EXCEPT !.resend = TRUE]
    /\ pc' = "loop"
    /\ last_event' = "timeout"
    /\ in_order' = FALSE
    /\ UNCHANGED <<role, call, first, timeout, resend_timeout, reset_timeout, result,
                   n_recv, accepted, arm_count, emitted_cur, sink_failed, src_fault,
                   received, fn_in, fn_out, wr>>

\* The select returns the receive timer: selected == Timeout.
SelectTimeout ==
    /\ pc = "select"
    /\ timeout = 0
    /\ result' = Err(ErrTimeout)
    /\ pc' = "done"
    /\ last_event' = "timeout"
    /\ in_order' = FALSE
    /\ UNCHANGED <<role, call, d, first, timeout, resend_timeout, reset_timeout,
                   n_recv, accepted, arm_count, emitted_cur, sink_failed, src_fault,
                   received, fn_in, fn_out, wr>>

\* The select returns the resend timer: d.resend = true, continue.
SelectResendTimeout ==
    /\ pc = "select"
    /\ Len(d.writer_chan) < MaxSent
    /\ Expired(resend_timeout)
    /\ d' = [d EXCEPT !.resend = TRUE]
    /\ pc' = "loop"
    /\ last_event' = "resend"
    /\ in_order' = FALSE
    /\ UNCHANGED <<role, call, first, timeout, resend_timeout, reset_timeout, result,
                   n_recv, accepted, arm_count, emitted_cur, sink_failed, src_fault,
                   received, fn_in, fn_out, wr>>

\* What Classify names a received packet
Kinds == {"foreign", "discarded", "error", "progress", "oack", "ignored"}

\* The select returns the reader port: a packet of the set, from one of the
\* addresses, is received and handled. n_recv counts the packets of the
\* kinds in `counted`, and no more than MaxRecv of them arrive.
Receive(addrs, packets, counted) ==
    /\ pc = "select"
    /\ Len(d.writer_chan) < MaxSent
    /\ \E addr \in addrs, packet \in packets :
       \E write_ok \in (IF role = "get" /\ Classify(addr, packet) = "progress"
                        THEN BOOLEAN ELSE {TRUE}) :
         LET r == on_packet(role, d, first, reset_timeout, addr, packet, write_ok)
         IN /\ Classify(addr, packet) \in counted => n_recv < MaxRecv
            /\ d' = r.d
            /\ first' = r.first
            /\ reset_timeout' = r.reset
            /\ pc' = IF r.ctl.kind \in {"Break", "Return"} THEN "done" ELSE "loop"
            /\ result' = IF r.ctl.kind = "Break" THEN Ok
                         ELSE IF r.ctl.kind = "Return" THEN Unwrap(r.ctl.v)
                         ELSE result
            /\ n_recv' = IF Classify(addr, packet) \in counted
                          THEN n_recv + 1 ELSE n_recv
            /\ last_event' = Classify(addr, packet)
            /\ in_order' = (in_order /\ NextInOrder(addr, packet))
            /\ accepted' = IF role = "get" /\ Classify(addr, packet) = "progress"
                           THEN Append(accepted, packet) ELSE accepted
            /\ emitted_cur' = IF r.d.current_id # d.current_id THEN None ELSE emitted_cur
            /\ sink_failed' = (sink_failed \/ ~write_ok)
            /\ received' = Some(<<addr, Brief(packet)>>)
    /\ UNCHANGED <<role, call, timeout, resend_timeout, arm_count, src_fault,
                   fn_in, fn_out, wr>>

\* The select returns the reader port, with the packets of a server that
\* acknowledges options as in OackMaps; every packet is counted.
ReceivePacket == Receive(Addrs, InPackets(d.current_id, n_recv), Kinds)

Next ==
    \/ Start
    \/ LoopTop
    \/ Tick
    \/ SelectTimeout
    \/ SelectResendTimeout
    \/ ReceivePacket

Spec == Init /\ [][Next]_vars

\* ------------------------------------------------------------------------
\* A long transfer, entered just before the block counter wraps
\* ------------------------------------------------------------------------

\* The address the session is bound to in the states of LateInit.
BoundAddr == [ip |-> "server", port |-> 2048]

\* The options a session can hold after its first packet: the defaults, or
\* those of an option acknowledgment.
SessionOptions == {DefaultOptions} \cup {from_map(m) : m \in OackMaps}

\* What such a source still holds at round 65534: two bytes, or a block and
\* a byte.
LateSources == {Bytes(n) : n \in {2, DEFAULT_BLOCK_SIZE + 1}}

\* The states of a transfer right after its round 65533: the peer is bound,
\* the counter is 65534, the handler has just asked for the receive timer
\* to be re-armed and (PUT) for the next block to be read and sent. The
\* packets emitted and the bytes written or read before this point are not
\* carried along: the channel, the sink and the receive count start empty,
\* and the source holds the bytes not yet read.
LateInit ==
    /\ role \in {"get", "put"}
    /\ call = [remote_addr |-> ServerAddr, opts |-> DefaultOptions]
    /\ \E o \in SessionOptions :
         \/ /\ role = "get"
            /\ d = [LoopDataGet(BoundAddr, o) EXCEPT !.current_id = U16_MAX - 1]
         \/ /\ role = "put"
            /\ \E src \in LateSources :
                 d = [LoopDataPut(BoundAddr, o, src) EXCEPT
                          !.current_id = U16_MAX - 1, !.resend = TRUE]
    /\ first = FALSE
    /\ timeout = TickMs
    /\ resend_timeout = Never
    /\ reset_timeout = TRUE
    /\ pc = "loop"
    /\ result = Running
    /\ n_recv = 0
    /\ last_event = "progress"
    /\ in_order = FALSE
    /\ accepted = <<>>
    /\ arm_count = 1
    /\ emitted_cur = None
    /\ sink_failed = FALSE
    /\ src_fault = FALSE
    /\ received = None
    /\ fn_in = NoInput
    /\ fn_out = <<>>
    /\ wr = NoWriter

\* The engine from the start of a GET call, or of either role from round
\* 65534 of a transfer.
InitWrap == (Init /\ role = "get") \/ LateInit

SpecWrap == InitWrap /\ [][Next]_vars

\* ------------------------------------------------------------------------
\* The engine with a server that acknowledges block size 0
\* ------------------------------------------------------------------------

\* The packets of a server whose option acknowledgment carries blksize "0"
ZeroInPackets(cur, n) ==
    {Data(i, p) : i \in BlockIds(cur, n), p \in Payloads}
    \cup {Acknowledgment(i) : i \in BlockIds(cur, n)}
    \cup {OptionAcknowledgment({<<KeyBlksize, ToStr(0)>>})}
    \cup {Error("FileNotFound", <<110, 111>>)}

ReceiveZero == Receive(Addrs, ZeroInPackets(d.current_id, n_recv), Kinds)

NextZero ==
    \/ Start
    \/ LoopTop
    \/ Tick
    \/ SelectTimeout
    \/ SelectResendTimeout
    \/ ReceiveZero

SpecZero == Init /\ [][NextZero]_vars

\* ------------------------------------------------------------------------
\* The engine under streams of packets and timer events that do not end
\* ------------------------------------------------------------------------

\* The calls looked at: GET, and PUT of a source of two bytes, with the
\* first of the caller's option sets.
InitLive ==
    /\ Init
    /\ call.opts.mode = "octet"
    /\ role = "put" => d.path_handle.buf = Bytes(2)

\* The packets that arrive: the awaited block or acknowledgment and the one
\* before it, a full and a short payload, an option acknowledgment and
\* an Error packet.
LiveInPackets(cur) ==
    {Data(i, p) : i \in {(cur + U16_MAX) % (U16_MAX + 1), cur},
                  p \in {Bytes(1), Bytes(DEFAULT_BLOCK_SIZE)}}
    \cup {Acknowledgment(i) : i \in {(cur + U16_MAX) % (U16_MAX + 1), cur}}
    \cup {OptionAcknowledgment({<<KeyBlksize, ToStr(2)>>})}
    \cup {Error("FileNotFound", <<110, 111>>)}

\* The server's port for the transfer, and another host
LiveAddrs == {[ip |-> "server", port |-> 2048], [ip |-> "other", port |-> 69]}

\* Packets of the peer and of the other host, any number of them; only the
\* packets that are progress are counted, so MaxRecv bounds the progress of
\* a run and nothing else.
ReceiveAny == Receive(LiveAddrs, LiveInPackets(d.current_id), {"progress"})

\* The writer task takes the oldest message from the channel (socket_writer
\* runs beside the engine), which makes room for the next one.
Drain ==
    /\ pc \in {"loop", "select"}
    /\ d.writer_chan # <<>>
    /\ d' = [d EXCEPT !.writer_chan = Tail(@)]
    /\ UNCHANGED <<role, call, first, timeout, resend_timeout, reset_timeout, pc,
                   result, n_recv, last_event, in_order, accepted, arm_count,
                   emitted_cur, sink_failed, src_fault, received, fn_in, fn_out, wr>>

NextLive ==
    \/ Start
    \/ LoopTop
    \/ Tick
    \/ SelectTimeout
    \/ SelectResendTimeout
    \/ ReceiveAny
    \/ Drain

\* The task of the engine and the writer task run (weak fairness of the
\* steps that wait for nothing); select.wait() returns when a timer it
\* waits on has fired; time passes and an armed receive timer that is not
\* armed again fires (strong fairness of Tick and SelectTimeout: packets
\* that keep arriving do not stop the clock, and the handle of the receive
\* timer is the first one the select looks at).
Fairness ==
    /\ WF_vars(Start)
    /\ WF_vars(LoopTop)
    /\ WF_vars(Drain)
    /\ WF_vars(SelectResendTimeout)
    /\ SF_vars(Tick)
    /\ SF_vars(SelectTimeout)

SpecLive == InitLive /\ [][NextLive]_vars /\ Fairness

\* ------------------------------------------------------------------------
\* The packet codec
\* ------------------------------------------------------------------------

\* Opcode as u16
OpcodeAsU16(op) ==
    CASE op = "RRQ" -> 1 [] op = "WRQ" -> 2 [] op = "DATA" -> 3
      [] op = "ACK" -> 4 [] op = "ERROR" -> 5 [] op = "OACK" -> 6

\* The variants of Error, in the order of their codes 0 .. 8
ErrorNames ==
    <<"Undefined", "FileNotFound", "AccessViolation", "DiskFull", "IllegalOperation",
      "UnknownTransferId", "FileAlreadyExists", "NoSuchUser",
      "OptionNegotiationRejected">>

\* Error as u16
ErrorAsU16(e) == (CHOOSE i \in 1 .. Len(ErrorNames) : ErrorNames[i] = e) - 1

\* Error::from_u16
from_u16(code) == IF code < Len(ErrorNames) THEN Some(ErrorNames[code + 1]) ELSE None

\* "netascii" and "octet"
StrNetascii == <<110, 101, 116, 97, 115, 99, 105, 105>>

StrOctet == <<111, 99, 116, 101, 116>>

\* impl Show for Mode
ModeToStr(m) == IF m = "netascii" THEN StrNetascii ELSE StrOctet

\* impl FromStr for Mode
FromStrMode(s) ==
    IF s = StrNetascii THEN Some("netascii")
    ELSE IF s = StrOctet THEN Some("octet")
    ELSE None

\* str::from_utf8_owned succeeds: the bytes are well-formed UTF-8.
IsCont(b) == b \in 128 .. 191

RECURSIVE IsUtf8(_)
IsUtf8(s) ==
    IF s = <<>> THEN TRUE
    ELSE LET b == s[1]
             n == Len(s)
         IN IF b < 128 THEN IsUtf8(Tail(s))
            ELSE IF b \in 194 .. 223
            THEN n >= 2 /\ IsCont(s[2]) /\ IsUtf8(SubSeq(s, 3, n))
            ELSE IF b \in 224 .. 239
            THEN /\ n >= 3
                 /\ s[2] \in (IF b = 224 THEN 160 .. 191
                              ELSE IF b = 237 THEN 128 .. 159 ELSE 128 .. 191)
                 /\ IsCont(s[3])
                 /\ IsUtf8(SubSeq(s, 4, n))
            ELSE IF b \in 240 .. 244
            THEN /\ n >= 4
                 /\ s[2] \in (IF b = 240 THEN 144 .. 191
                              ELSE IF b = 244 THEN 128 .. 143 ELSE 128 .. 191)
                 /\ IsCont(s[3])
                 /\ IsCont(s[4])
                 /\ IsUtf8(SubSeq(s, 5, n))
            ELSE FALSE

\* to_ascii_lower
RECURSIVE to_ascii_lower(_)
to_ascii_lower(s) ==
    IF s = <<>> THEN <<>>
    ELSE <<(IF s[1] \in 65 .. 90 THEN s[1] + 32 ELSE s[1])>> \o to_ascii_lower(Tail(s))

\* IoResult<T> with a value
OkOf(v) == [tag |-> "Ok", v |-> v]

ErrEndOfFile == IoError("EndOfFile", "end of file", None)

invalid_input_error(desc) == Err(IoError("InvalidInput", desc, None))

write_be_u16(n) == <<n \div 256, n % 256>>

\* The orders in which a HashMap may hand out its entries: the sequences
\* that enumerate the set.
RECURSIVE KeyOrders(_)
KeyOrders(opts) ==
    IF opts = {} THEN {<<>>}
    ELSE UNION {{<<e>> \o rest : rest \in KeyOrders(opts \ {e})} : e \in opts}

\* Packet::encode_options, for the entries in the order opts.keys() hands
\* them out
RECURSIVE encode_options(_)
encode_options(keys) ==
    IF keys = <<>> THEN <<>>
    ELSE keys[1][1] \o <<0>> \o keys[1][2] \o <<0>> \o encode_options(Tail(keys))

\* Faulty variant of encode_netascii: writes a carriage return as it is.
RECURSIVE encode_netascii_BareCr(_)
encode_netascii_BareCr(data) ==
    IF data = <<>> THEN <<>>
    ELSE (IF data[1] = 10 THEN <<13, 10>> ELSE <<data[1]>>)
         \o encode_netascii_BareCr(Tail(data))

\* Packet::encode_netascii
RECURSIVE encode_netascii(_)
encode_netascii(data) ==
    IF data = <<>> THEN <<>>
    ELSE (IF data[1] = 10 THEN <<13, 10>>
          ELSE IF data[1] = 13 THEN <<13, 0>>
          ELSE <<data[1]>>)
         \o encode_netascii(Tail(data))

\* Packet::encode; keys is the order in which opts.keys() hands out the
\* entries of the packet's options.  The writer is a MemWriter: no write
\* fails.
encode(mode, p, keys) ==
    OkOf(write_be_u16(OpcodeAsU16(p.op)) \o
         (IF p.op \in {"RRQ", "WRQ"}
          THEN p.filename \o <<0>> \o ModeToStr(p.mode) \o <<0>> \o encode_options(keys)
          ELSE IF p.op = "DATA"
          THEN write_be_u16(p.block_id) \o
               (IF mode = "netascii" THEN encode_netascii(p.data) ELSE p.data)
          ELSE IF p.op = "ACK"
          THEN write_be_u16(p.block_id)
          ELSE IF p.op = "ERROR"
          THEN write_be_u16(ErrorAsU16(p.code)) \o p.msg \o <<0>>
          ELSE encode_options(keys)))

\* The reads below take the buffer p and the position pos of the next byte
\* (from 1), and answer with the position after what they consumed.

\* read_be_u16
read_be_u16(p, pos) ==
    IF pos + 1 <= Len(p)
    THEN [ok |-> TRUE, v |-> p[pos] * 256 + p[pos + 1], pos |-> pos + 2]
    ELSE [ok |-> FALSE, err |-> Err(ErrEndOfFile), pos |-> Len(p) + 1]

\* Faulty variant of read_to: a field that the buffer ends without its
\* terminating byte is the end-of-file error.
read_to_Strict(p, pos, byte) ==
    IF pos > Len(p)
    THEN [ok |-> FALSE, err |-> Err(ErrEndOfFile), pos |-> pos]
    ELSE LET hits == {i \in pos .. Len(p) : p[i] = byte}
         IN IF hits = {}
            THEN [ok |-> FALSE, err |-> Err(ErrEndOfFile), pos |-> Len(p) + 1]
            ELSE LET i == CHOOSE h \in hits : \A g \in hits : h <= g
                 IN [ok |-> TRUE, v |-> SubSeq(p, pos, i - 1), pos |-> i + 1]

\* Packet::read_to: the bytes before the next occurrence of byte, which is
\* consumed; the rest of the buffer if there is none and the rest is not
\* empty; the end-of-file error at the end of the buffer.
read_to(p, pos, byte) ==
    IF pos > Len(p)
    THEN [ok |-> FALSE, err |-> Err(ErrEndOfFile), pos |-> pos]
    ELSE LET hits == {i \in pos .. Len(p) : p[i] = byte}
         IN IF hits = {}
            THEN [ok |-> TRUE, v |-> SubSeq(p, pos, Len(p)), pos |-> Len(p) + 1]
            ELSE LET i == CHOOSE h \in hits : \A g \in hits : h <= g
                 IN [ok |-> TRUE, v |-> SubSeq(p, pos, i - 1), pos |-> i + 1]

\* Packet::read_str
read_str(p, pos) ==
    LET r == read_to(p, pos, 0)
    IN IF r.ok /\ ~IsUtf8(r.v)
       THEN [ok |-> FALSE, err |-> invalid_input_error("Wrong string encoding"),
             pos |-> r.pos]
       ELSE r

\* HashMap::insert
Insert(h, key, val) == {q \in h : q[1] # key} \cup {<<key, val>>}

\* Faulty variant of decode_options: stores the keys as they are on the
\* wire.
RECURSIVE decode_options_Verbatim(_, _, _)
decode_options_Verbatim(p, pos, opts) ==
    LET key_opt == read_str(p, pos)
        val_opt == read_str(p, key_opt.pos)
    IN IF key_opt.ok /\ val_opt.ok
       THEN decode_options_Verbatim(p, val_opt.pos, Insert(opts, key_opt.v, val_opt.v))
       ELSE opts

\* Packet::decode_options, from position pos with the entries read so far
RECURSIVE decode_options(_, _, _)
decode_options(p, pos, opts) ==
    LET key_opt == read_str(p, pos)
        val_opt == read_str(p, key_opt.pos)
    IN IF key_opt.ok /\ val_opt.ok
       THEN decode_options(p, val_opt.pos,
                           Insert(opts, to_ascii_lower(key_opt.v), val_opt.v))
       ELSE opts

\* Faulty variant of decode_netascii: keeps the carriage return of a line
\* end.
RECURSIVE decode_netascii_KeepsCr(_, _, _)
decode_netascii_KeepsCr(p, pos, data) ==
    IF pos > Len(p) THEN OkOf(data)
    ELSE IF p[pos] = 13
    THEN IF pos + 1 > Len(p) THEN Err(ErrEndOfFile)
         ELSE IF p[pos + 1] = 10
         THEN decode_netascii_KeepsCr(p, pos + 2, data \o <<13, 10>>)
         ELSE IF p[pos + 1] = 0
         THEN decode_netascii_KeepsCr(p, pos + 2, Append(data, 13))
         ELSE invalid_input_error("Invalid netascii encoding")
    ELSE decode_netascii_KeepsCr(p, pos + 1, Append(data, p[pos]))

\* Packet::decode_netascii, from position pos with the bytes decoded so far
RECURSIVE decode_netascii(_, _, _)
decode_netascii(p, pos, data) ==
    IF pos > Len(p) THEN OkOf(data)
    ELSE IF p[pos] = 13
    THEN IF pos + 1 > Len(p) THEN Err(ErrEndOfFile)
         ELSE IF p[pos + 1] = 10
         THEN decode_netascii(p, pos + 2, Append(data, 10))
         ELSE IF p[pos + 1] = 0
         THEN decode_netascii(p, pos + 2, Append(data, 13))
         ELSE invalid_input_error("Invalid netascii encoding")
    ELSE decode_netascii(p, pos + 1, Append(data, p[pos]))

\* Packet::decode_request, after the opcode
decode_request(p, pos, op) ==
    LET filename == read_str(p, pos)
        mode_name == read_str(p, filename.pos)
        opts == decode_options(p, mode_name.pos, {})
    IN IF ~filename.ok THEN filename.err
       ELSE IF ~mode_name.ok THEN mode_name.err
       ELSE IF IsSome(FromStrMode(mode_name.v))
       THEN OkOf([op |-> op, filename |-> filename.v,
                  mode |-> Unwrap(FromStrMode(mode_name.v)), opts |-> opts])
       ELSE invalid_input_error("Mode not recognized")

\* Packet::decode
decode(mode, p) ==
    LET opcode == read_be_u16(p, 1)
        block_id == read_be_u16(p, 3)
    IN IF ~opcode.ok THEN opcode.err
       ELSE IF opcode.v = OpcodeAsU16("RRQ") THEN decode_request(p, 3, "RRQ")
       ELSE IF opcode.v = OpcodeAsU16("WRQ") THEN decode_request(p, 3, "WRQ")
       ELSE IF opcode.v = OpcodeAsU16("DATA")
       THEN IF ~block_id.ok THEN block_id.err
            ELSE LET data == IF mode = "netascii"
                             THEN decode_netascii(p, 5, <<>>)
                             ELSE OkOf(SubSeq(p, 5, Len(p)))
                 IN IF data.tag = "Ok" THEN OkOf(Data(block_id.v, data.v)) ELSE data
       ELSE IF opcode.v = OpcodeAsU16("ACK")
       THEN IF ~block_id.ok THEN block_id.err ELSE OkOf(Acknowledgment(block_id.v))
       ELSE IF opcode.v = OpcodeAsU16("ERROR")
       THEN LET error_code == read_be_u16(p, 3)
                error_msg == read_str(p, 5)
            IN IF ~error_code.ok THEN error_code.err
               ELSE IF ~error_msg.ok THEN error_msg.err
               ELSE IF IsSome(from_u16(error_code.v))
               THEN OkOf(Error(Unwrap(from_u16(error_code.v)), error_msg.v))
               ELSE invalid_input_error("Invalid error code")
       ELSE IF opcode.v = OpcodeAsU16("OACK")
       THEN OkOf(OptionAcknowledgment(decode_options(p, 3, {})))
       ELSE invalid_input_error("Wrong packet type")

\* ------------------------------------------------------------------------
\* The local port of the socket (util.rs)
\* ------------------------------------------------------------------------

\* random_ephemeral_port, as a function of the draw random::<u16>(); the
\* arithmetic is on u16.
random_ephemeral_port(r) ==
    LET min == 49152
        max == 65535
    IN ((r % (max - min)) + min) % (U16_MAX + 1)

\* ------------------------------------------------------------------------
\* The option registry and the codec, applied on their own
\* ------------------------------------------------------------------------

\* How many functions are applied one after the other to one input.
MaxPipe == 3

\* "BLKSIZE", a key from_map does not recognize
KeyBlksizeUpper == <<66, 76, 75, 83, 73, 90, 69>>

\* "x", a key from_map does not recognize and a text no number parses from
StrX == <<120>>

\* The maps with at most one value for every key of keyvals, a function
\* from keys to sets of values.
RECURSIVE MapsOver(_, _)
MapsOver(keys, keyvals) ==
    IF keys = {} THEN {{}}
    ELSE LET k == CHOOSE x \in keys : TRUE
             rest == MapsOver(keys \ {k}, keyvals)
         IN rest \cup {m \cup {<<k, v>>} : m \in rest, v \in keyvals[k]}

\* The option maps from_map is applied to: recognized keys with texts that
\* parse and texts that do not, and keys that are not recognized.
FnMapValues ==
    [k \in {KeyBlksize, KeyTimeout, KeyTsize, KeyRollover, KeyBlksizeUpper, StrX} |->
        IF k = KeyBlksize THEN {ToStr(8), StrX}
        ELSE IF k = KeyTimeout THEN {ToStr(3), <<>>}
        ELSE IF k = KeyTsize THEN {ToStr(10), StrX}
        ELSE IF k = KeyRollover THEN {ToStr(0), ToStr(1), ToStr(2)}
        ELSE {ToStr(8)}]

FnMaps == MapsOver(DOMAIN FnMapValues, FnMapValues)

\* The TransferOptions to_options is applied to.
FnOptions ==
    [mode : {"octet", "netascii"},
     block_size : {DEFAULT_BLOCK_SIZE, 8},
     transfer_size : {None, Some(0), Some(10)},
     receive_timeout : {DefaultOptions.receive_timeout, 2000},
     resend_timeout : {DefaultOptions.resend_timeout, 3},
     rollover : {None, Some("Zero"), Some("One")}]

\* The sequences over alphabet of length at most n.
SeqsUpTo(alphabet, n) == UNION {[1 .. k -> alphabet] : k \in 0 .. n}

\* The strings of the packets encode is applied to: "", "a", "a" NUL "b"
\* and a two-byte character.
FnStrings == {<<>>, <<97>>, <<97, 0, 98>>, <<195, 169>>}

\* Their option maps: at most two of the keys "", "a", "A", "b" and
\* "a" NUL "b", each with the text "", "v" or "v" NUL "w".
FnOptionMaps ==
    {m \in MapsOver({<<>>, <<97>>, <<65>>, <<98>>, <<97, 0, 98>>},
                    [k \in {<<>>, <<97>>, <<65>>, <<98>>, <<97, 0, 98>>} |->
                        {<<>>, <<118>>, <<118, 0, 119>>}]) :
        Cardinality(m) <= 2}

FnModes == {"octet", "netascii"}

FnBlockIds == {0, 1, 256, 3338, U16_MAX}

\* The payloads: up to three bytes among NUL, LF, CR and "a".
FnPayloads == SeqsUpTo({0, 10, 13, 97}, 3)

FnRequests ==
    {ReadRequest(f, m, o) : f \in FnStrings, m \in FnModes, o \in FnOptionMaps}
    \cup {WriteRequest(f, m, o) : f \in FnStrings, m \in FnModes, o \in FnOptionMaps}

FnDatas == {Data(i, b) : i \in FnBlockIds, b \in FnPayloads}

FnAcks == {Acknowledgment(i) : i \in FnBlockIds}

FnErrors ==
    {Error(ErrorNames[c], msg) : c \in 1 .. Len(ErrorNames), msg \in FnStrings}

FnOacks == {OptionAcknowledgment(o) : o \in FnOptionMaps}

\* "OCTET"
StrOctetUpper == <<79, 67, 84, 69, 84>>

\* The byte buffers decode is applied to.  After the opcode of a request: a
\* file name, a mode text (one of them in upper case, one that is no
\* mode), and up to five bytes among NUL, "a" and "A";
\* after the other opcodes a few bytes of what the variant is made of, among
\* them bytes that are not UTF-8, lone LF and CR, and error codes that do
\* not exist.  Some buffers are too short for an opcode or have none that
\* exists.
FnBuffers ==
    {<<0, op>> \o f \o <<0>> \o m \o t :
        op \in {1, 2}, f \in {<<>>, <<97>>},
        m \in {StrOctet, StrNetascii, StrOctetUpper, StrX},
        t \in SeqsUpTo({0, 97, 65}, 5)}
    \cup {<<0, 3>> \o t : t \in SeqsUpTo({0, 10, 13, 97}, 5)}
    \cup {<<0, 4>> \o t : t \in SeqsUpTo({0, 1, 255}, 3)}
    \cup {<<0, 5, 0>> \o t : t \in SeqsUpTo({0, 1, 8, 9, 97, 255}, 3)}
    \cup {<<0, 6>> \o t : t \in SeqsUpTo({0, 97, 65, 255}, 4)}
    \cup {<<>>, <<0>>, <<0, 5>>, <<0, 0>>, <<0, 7>>, <<1, 3, 0, 1>>}

\* The buffers read_to and decode_options are applied to from their start:
\* up to five bytes among NUL, "a", "A" and a byte that is not UTF-8.
FnFields == SeqsUpTo({0, 97, 65, 255}, 5)

\* Every value of random::<u16>()
FnDraws == 0 .. U16_MAX

\* An input: a value, what it is ("map", "opts", "packet", "bytes", "fields",
\* "draw"),
\* and the mode the codec is called with.
Input(t, v, mode) == [t |-> t, v |-> v, mode |-> mode]

\* The value the next function is applied to: the input, or the result of
\* the function applied last.
Cur == IF fn_out = <<>> THEN [t |-> fn_in.t, v |-> fn_in.v]
       ELSE [t |-> fn_out[Len(fn_out)].t, v |-> fn_out[Len(fn_out)].v]

Applied(fn, t, v) ==
    /\ Len(fn_out) < MaxPipe
    /\ fn_out' = Append(fn_out, [fn |-> fn, t |-> t, v |-> v])
    /\ UNCHANGED <<role, call, d, first, timeout, resend_timeout, reset_timeout, pc,
                   result, n_recv, last_event, in_order, accepted, arm_count,
                   emitted_cur, sink_failed, src_fault, received, fn_in, wr>>

ApplyFromMap ==
    /\ pc = "fn"
    /\ Cur.t = "map"
    /\ Applied("from_map", "opts", from_map(Cur.v))

ApplyToOptions ==
    /\ pc = "fn"
    /\ Cur.t = "opts"
    /\ Applied("to_options", "map", to_options(Cur.v))

\* get_internal up to the end of init: the request it hands to the writer.
ApplyInitGet ==
    /\ pc = "fn"
    /\ Cur.t = "opts"
    /\ Applied("init_get", "packet",
               init_get(LoopDataGet(ServerAddr, Cur.v), ServerAddr).writer_chan[1][2])

\* put_internal up to the end of init: the request it hands to the writer.
ApplyInitPut ==
    /\ pc = "fn"
    /\ Cur.t = "opts"
    /\ Applied("init_put", "packet",
               init_put(LoopDataPut(ServerAddr, Cur.v, <<>>)).writer_chan[1][2])

\* Packet::encode; the map hands out its entries in any order.
ApplyEncode ==
    /\ pc = "fn"
    /\ Cur.t = "packet"
    /\ \E keys \in KeyOrders(IF Cur.v.op \in {"RRQ", "WRQ", "OACK"}
                              THEN Cur.v.opts ELSE {}) :
          Applied("encode", "bytes", encode(fn_in.mode, Cur.v, keys).v)

\* Packet::decode: a packet, or an error
ApplyDecode ==
    /\ pc = "fn"
    /\ Cur.t = "bytes"
    /\ LET r == decode(fn_in.mode, Cur.v)
       IN IF r.tag = "Ok"
          THEN Applied("decode", "packet", r.v)
          ELSE Applied("decode", "err", r.err[1])

\* Packet::read_to(buf, 0) on a BufReader over the buffer: the field and the
\* position of the reader after it, or the error.
ApplyReadTo ==
    /\ pc = "fn"
    /\ Cur.t = "fields"
    /\ LET r == read_to(Cur.v, 1, 0)
       IN IF r.ok
          THEN Applied("read_to", "field", [v |-> r.v, pos |-> r.pos])
          ELSE Applied("read_to", "err", r.err.err[1])

\* Packet::decode_options on a BufReader over the buffer
ApplyDecodeOptions ==
    /\ pc = "fn"
    /\ Cur.t = "fields"
    /\ Applied("decode_options", "map", decode_options(Cur.v, 1, {}))

\* random_ephemeral_port with this value of random::<u16>()
ApplyRandomPort ==
    /\ pc = "fn"
    /\ Cur.t = "draw"
    /\ Applied("random_ephemeral_port", "port", random_ephemeral_port(Cur.v))

\* The options of a caller that asks for block size 8, a resend timeout of
\* 3000 ms and rollover to one.
RequestedOptions ==
    [DefaultOptions EXCEPT !.block_size = 8, !.resend_timeout = 3000,
                           !.receive_timeout = 2000, !.rollover = Some("One")]

\* The first iteration of a GET whose first packet is the option
\* acknowledgment of the map: the session options after it.
ApplyOackGet ==
    /\ pc = "fn"
    /\ Cur.t = "map"
    /\ Applied("oack_get", "opts",
               on_packet("get", init_get(LoopDataGet(ServerAddr, RequestedOptions),
                                         ServerAddr),
                         TRUE, FALSE, ServerAddr, OptionAcknowledgment(Cur.v),
                         TRUE).d.opts)

\* The same for a PUT.
ApplyOackPut ==
    /\ pc = "fn"
    /\ Cur.t = "map"
    /\ Applied("oack_put", "opts",
               on_packet("put", init_put(LoopDataPut(ServerAddr, RequestedOptions,
                                                     <<>>)),
                         TRUE, FALSE, ServerAddr, OptionAcknowledgment(Cur.v),
                         TRUE).d.opts)

InitFn ==
    /\ \/ \E m \in FnMaps : fn_in = Input("map", m, "octet")
       \/ \E o \in FnOptions : fn_in = Input("opts", o, "octet")
       \/ \E mode \in FnModes, p \in FnRequests : fn_in = Input("packet", p, mode)
       \/ \E mode \in FnModes, p \in FnDatas : fn_in = Input("packet", p, mode)
       \/ \E mode \in FnModes, p \in FnAcks : fn_in = Input("packet", p, mode)
       \/ \E mode \in FnModes, p \in FnErrors : fn_in = Input("packet", p, mode)
       \/ \E mode \in FnModes, p \in FnOacks : fn_in = Input("packet", p, mode)
       \/ \E mode \in FnModes, b \in FnBuffers : fn_in = Input("bytes", b, mode)
       \/ \E b \in FnFields : fn_in = Input("fields", b, "octet")
       \/ \E r \in FnDraws : fn_in = Input("draw", r, "octet")
    /\ fn_out = <<>>
    /\ wr = NoWriter
    /\ pc = "fn"
    /\ role = "none"
    /\ call = [remote_addr |-> ServerAddr, opts |-> DefaultOptions]
    /\ d = LoopDataGet(ServerAddr, DefaultOptions)
    /\ first = TRUE
    /\ timeout = 0
    /\ resend_timeout = Never
    /\ reset_timeout = FALSE
    /\ result = Running
    /\ n_recv = 0
    /\ last_event = "none"
    /\ in_order = TRUE
    /\ accepted = <<>>
    /\ arm_count = 0
    /\ emitted_cur = None
    /\ sink_failed = FALSE
    /\ src_fault = FALSE
    /\ received = None

NextFn ==
    \/ ApplyFromMap
    \/ ApplyToOptions
    \/ ApplyInitGet
    \/ ApplyInitPut
    \/ ApplyOackGet
    \/ ApplyOackPut
    \/ ApplyEncode
    \/ ApplyDecode
    \/ ApplyReadTo
    \/ ApplyDecodeOptions
    \/ ApplyRandomPort

SpecFn == InitFn /\ [][NextFn]_vars

\* ------------------------------------------------------------------------
\* The writer task (util.rs), run on its own
\* ------------------------------------------------------------------------

\* How many items are handed to the channel in one run.
MaxEnq == 3

\* What socket.sendto answers when it fails.
ErrSendto == IoError("OtherIoError", "sendto failed", None)

\* send_packet: the packet is encoded and the bytes are handed to the
\* socket for addr; sendto_ok is whether the socket takes them. `sent` is
\* what went out on the socket.
send_packet(addr, mode, p, keys, sendto_ok) ==
    LET packet_bytes == encode(mode, p, keys)
    IN IF packet_bytes.tag = "Ok"
       THEN IF sendto_ok
            THEN [res |-> Ok, sent |-> <<(<<addr, packet_bytes.v>>)>>]
            ELSE [res |-> Err(ErrSendto), sent |-> <<>>]
       ELSE [res |-> Err(IoError("InvalidInput", "Error encoding packet", None)),
             sent |-> <<>>]

\* The (address, packet) items the engine hands to the channel.
WriterItems ==
    {<<ServerAddr, ReadRequest(StrPath, "octet", {<<KeyBlksize, ToStr(2)>>})>>,
     <<ServerAddr, Acknowledgment(1)>>,
     <<[ip |-> "server", port |-> 2048], Data(1, <<13, 97>>)>>,
     <<[ip |-> "other", port |-> 69], Error("UnknownTransferId", StrUnknownTid)>>}

\* socket_writer up to the spawn: an empty channel whose Sender the engine
\* holds, and the task at its recv_opt.
\*   chan    the items in the channel
\*   open    the Sender is alive
\*   pc      "recv" (at recv_opt), "send" (in send_packet), "exit"
\*   cur     the item taken from the channel and not yet handled
\*   socket  the (address, bytes) datagrams the socket took, in order
\*   enq     history: every item handed to the channel, in order
\*   fate    history: "sent" or "dropped" for each item handled, in order
socket_writer(mode) ==
    [mode |-> mode, chan |-> <<>>, open |-> TRUE, pc |-> "recv", cur |-> None,
     socket |-> <<>>, enq |-> <<>>, fate |-> <<>>]

InitWriter ==
    /\ \E mode \in FnModes : wr = socket_writer(mode)
    /\ fn_in = NoInput
    /\ fn_out = <<>>
    /\ pc = "writer"
    /\ role = "none"
    /\ call = [remote_addr |-> ServerAddr, opts |-> DefaultOptions]
    /\ d = LoopDataGet(ServerAddr, DefaultOptions)
    /\ first = TRUE
    /\ timeout = 0
    /\ resend_timeout = Never
    /\ reset_timeout = FALSE
    /\ result = Running
    /\ n_recv = 0
    /\ last_event = "none"
    /\ in_order = TRUE
    /\ accepted = <<>>
    /\ arm_count = 0
    /\ emitted_cur = None
    /\ sink_failed = FALSE
    /\ src_fault = FALSE
    /\ received = None

WriterStep(w) ==
    /\ pc = "writer"
    /\ wr' = w
    /\ UNCHANGED <<role, call, d, first, timeout, resend_timeout, reset_timeout, pc,
                   result, n_recv, last_event, in_order, accepted, arm_count,
                   emitted_cur, sink_failed, src_fault, received, fn_in, fn_out>>

\* The engine: d.writer_chan.send(item)
Enqueue ==
    /\ wr.open
    /\ Len(wr.enq) < MaxEnq
    /\ \E item \in WriterItems :
          WriterStep([wr EXCEPT !.chan = Append(@, item), !.enq = Append(@, item)])

\* The engine returns: LoopData and with it the Sender is dropped.
DropSender ==
    /\ wr.open
    /\ WriterStep([wr EXCEPT !.open = FALSE])

\* Faulty variant of RecvOk: the task takes the item handed over last.
RecvOk_Lifo ==
    /\ wr.pc = "recv"
    /\ wr.chan # <<>>
    /\ WriterStep([wr EXCEPT !.cur = Some(wr.chan[Len(wr.chan)]),
                             !.chan = SubSeq(@, 1, Len(@) - 1),
                             !.pc = "send"])

\* The task: rcv.recv_opt() answers Ok((addr, packet)), the oldest item of
\* the channel, whether or not the Sender is alive.
RecvOk ==
    /\ wr.pc = "recv"
    /\ wr.chan # <<>>
    /\ WriterStep([wr EXCEPT !.cur = Some(Head(wr.chan)),
                             !.chan = Tail(@),
                             !.pc = "send"])

\* The task: send_packet for the item taken; an error is logged and the
\* loop goes on.
Send ==
    /\ wr.pc = "send"
    /\ LET addr == Unwrap(wr.cur)[1]
           packet == Unwrap(wr.cur)[2]
       IN \E sendto_ok \in BOOLEAN,
             keys \in KeyOrders(IF packet.op \in {"RRQ", "WRQ", "OACK"}
                                THEN packet.opts ELSE {}) :
             LET res == send_packet(addr, wr.mode, packet, keys, sendto_ok)
             IN WriterStep([wr EXCEPT
                              !.socket = @ \o res.sent,
                              !.fate = Append(@, IF res.res = Ok THEN "sent"
                                                 ELSE "dropped"),
                              !.cur = None,
                              !.pc = "recv"])

\* The task: rcv.recv_opt() answers Err, which it does when the channel is
\* empty and the Sender is gone; the task returns.
RecvErr ==
    /\ wr.pc = "recv"
    /\ wr.chan = <<>>
    /\ ~wr.open
    /\ WriterStep([wr EXCEPT !.pc = "exit"])

NextWriter ==
    \/ Enqueue
    \/ DropSender
    \/ RecvOk
    \/ Send
    \/ RecvErr

SpecWriter == InitWriter /\ [][NextWriter]_vars

\* ------------------------------------------------------------------------
\* Properties of the GET role
\* ------------------------------------------------------------------------

Last(s) == s[Len(s)]

Front(s) == SubSeq(s, 1, Len(s) - 1)

\* The request a GET call emits: the path, the caller's mode and options.
RequestOfGet == <<call.remote_addr, [op |-> "RRQ", filename |-> StrPath,
                                     mode |-> call.opts.mode,
                                     opts |-> to_options(call.opts)]>>

\* The acknowledgments of blocks 1 .. n, in order, addressed to addr.
AckSeq(addr, n) == [i \in 1 .. n |-> <<addr, [op |-> "ACK", block_id |-> i]>>]

\* The payloads of a sequence of Data packets, concatenated in order.
RECURSIVE Flatten(_)
Flatten(ps) == IF Len(ps) = 0 THEN <<>> ELSE Flatten(Front(ps)) \o Last(ps).data

\* C1: in a GET where the server's Data blocks 1 .. n arrive in order from
\* the peer, no timer fires and the sink takes every write, the engine has
\* emitted exactly the read request followed by ACK(1) .. ACK(n) for the n
\* blocks received so far, every one of them was accepted, and the call has
\* returned Ok exactly when the last block is shorter than the block size
\* (the default one, as no option acknowledgment is part of the exchange);
\* until then it is still running.
C1_GetInOrder ==
    (role = "get" /\ in_order /\ ~sink_failed /\ pc # "init") =>
        /\ d.writer_chan = <<RequestOfGet>> \o AckSeq(d.remote_addr, n_recv)
        /\ Len(accepted) = n_recv
        /\ \A i \in 1 .. n_recv : accepted[i].block_id = i
        /\ result \in {Ok, Running}
        /\ (result = Ok) <=>
               (n_recv > 0 /\ Len(accepted[n_recv].data) < DEFAULT_BLOCK_SIZE)

\* C1 witness: a full block and then a short one were received in order and
\* the call returned Ok.
C1_Witness ==
    /\ role = "get" /\ in_order /\ ~sink_failed
    /\ n_recv = 2
    /\ Len(accepted[1].data) = DEFAULT_BLOCK_SIZE
    /\ Len(accepted[2].data) < DEFAULT_BLOCK_SIZE
    /\ Len(d.writer_chan) = 3
    /\ result = Ok

\* C2: in a GET the bytes in the sink are the concatenation, in acceptance
\* order, of the whole payloads of the accepted Data blocks, each exactly
\* once (all but the last one when the sink refused the last write, which
\* ends the call); no byte of any other packet is written.
C2_SinkContent ==
    role = "get" =>
        /\ d.path_handle = Flatten(IF sink_failed THEN Front(accepted) ELSE accepted)
        /\ sink_failed => (accepted # <<>> /\ pc = "done" /\ result.tag = "Err")

\* C2 witness: two blocks were accepted and written, and a third packet was
\* received that left no byte in the sink.
C2_Witness ==
    /\ role = "get" /\ ~sink_failed
    /\ n_recv = 3
    /\ Len(accepted) = 2
    /\ Len(accepted[1].data) = DEFAULT_BLOCK_SIZE
    /\ Len(accepted[2].data) = 2
    /\ Len(d.path_handle) = DEFAULT_BLOCK_SIZE + 2

\* C3: a GET has returned Ok exactly when it accepted (and the sink took) a
\* Data block whose payload is shorter than the session's block size, the
\* empty payload included; the acknowledgment of that block is the last
\* packet emitted; every block accepted before it was at least block-size
\* long, so a block of exactly the block size never ends the transfer.
C3_GetTermination ==
    role = "get" =>
        /\ (result = Ok) <=>
               (/\ accepted # <<>>
                /\ ~sink_failed
                /\ Len(Last(accepted).data) < d.opts.block_size)
        /\ result = Ok =>
               (/\ pc = "done"
                /\ Last(d.writer_chan) =
                       <<d.remote_addr, [op |-> "ACK", block_id |-> Last(accepted).block_id]>>)
        /\ \A i \in 1 .. Len(accepted) - 1 :
               Len(accepted[i].data) >= d.opts.block_size

\* C3 witness: the session's block size is 2 by option acknowledgment, a
\* block of exactly 2 bytes was accepted without ending the transfer, and
\* the empty block that followed ended it.
C3_Witness ==
    /\ role = "get" /\ result = Ok
    /\ d.opts.block_size = 2
    /\ Len(accepted) = 2
    /\ Len(accepted[1].data) = 2
    /\ Len(accepted[2].data) = 0

\* C4: a GET that has bound its peer and receives from it a packet it does
\* not expect (Data with another block id, an acknowledgment, a request, an
\* option acknowledgment) emits nothing, writes nothing to the sink, keeps
\* its block counter and options, leaves the re-arm flag as it was and
\* stays in the transfer.
C4_GetIgnores ==
    [][(/\ role = "get"
        /\ ~first
        /\ n_recv' = n_recv + 1
        /\ last_event' = "ignored")
       => (/\ d' = d
           /\ reset_timeout' = reset_timeout
           /\ first' = first
           /\ result' = result
           /\ accepted' = accepted
           /\ pc' = "loop")]_vars

\* C4 witness: after a block was accepted, the most recent packet was an
\* unexpected one from the bound peer; the counter and the sink show the
\* accepted block only.
C4_Witness ==
    /\ role = "get" /\ ~first
    /\ last_event = "ignored"
    /\ n_recv = 3
    /\ Len(accepted) = 1
    /\ d.current_id = 2
    /\ Len(d.writer_chan) = 2
    /\ d.path_handle = accepted[1].data
    /\ ~reset_timeout
    /\ pc = "loop"

\* ------------------------------------------------------------------------
\* Properties of the block counter
\* ------------------------------------------------------------------------

\* The counter that follows c under the session's rollover option.
StepExpected(c, rollover) ==
    IF c = U16_MAX THEN (IF rollover = <<"One">> THEN 1 ELSE 0) ELSE c + 1

\* C5: the block counter is always in 0 .. 65535; whenever it changes it
\* goes to the next value, which after 65535 is 1 if the session's rollover
\* option is One and 0 otherwise (Zero, or none); it changes only in a round
\* that accepts the awaited packet (or takes the first-packet option
\* acknowledgment in PUT); and every such round of GET (an accepted Data)
\* and of PUT (a matching ACK that does not end the transfer) moves it.
C5_Rollover ==
    /\ [](d.current_id \in 0 .. U16_MAX)
    /\ [][/\ d'.current_id # d.current_id =>
              /\ d'.current_id = StepExpected(d.current_id, d'.opts.rollover)
              /\ n_recv' = n_recv + 1
              /\ last_event' \in {"progress", "oack"}
          /\ (/\ n_recv' = n_recv + 1
              /\ last_event' = "progress"
              /\ (role = "get" \/ pc' # "done")) =>
                 d'.current_id = StepExpected(d.current_id, d'.opts.rollover)]_vars

\* C5 witness: a GET whose session has rollover One accepted block 65535
\* and its counter is 1.
C5_Witness ==
    /\ role = "get"
    /\ d.opts.rollover = <<"One">>
    /\ Len(accepted) = 2
    /\ accepted[2].block_id = U16_MAX
    /\ last_event = "progress"
    /\ d.current_id = 1

\* ------------------------------------------------------------------------
\* Properties of the timers
\* ------------------------------------------------------------------------

\* The request a PUT call emits: the path, the caller's mode and options.
RequestOfPut == <<call.remote_addr, [op |-> "WRQ", filename |-> StrPath,
                                     mode |-> call.opts.mode,
                                     opts |-> to_options(call.opts)]>>

\* The error of a call that ended on the receive timer.
TimeoutResult ==
    [tag |-> "Err",
     err |-> <<[kind |-> "ConnectionAborted", desc |-> "Connection timeout",
                detail |-> <<>>]>>]

\* C6: when the select returns the receive timer, the call returns the
\* error ConnectionAborted "Connection timeout" at once, emitting nothing,
\* and nothing happens after a return. If no packet was received at all, a
\* GET has emitted the read request only, and a PUT whose resend timeout is
\* larger than its receive timeout the write request only, without reading
\* the source.
C6_ReceiveTimeout ==
    /\ [](result = TimeoutResult =>
            /\ pc = "done"
            /\ last_event = "timeout"
            /\ (role = "get" /\ n_recv = 0) => d.writer_chan = <<RequestOfGet>>
            /\ (/\ role = "put"
                /\ n_recv = 0
                /\ call.opts.resend_timeout > call.opts.receive_timeout) =>
                   (d.writer_chan = <<RequestOfPut>> /\ d.path_handle.reads = 0))
    /\ [][/\ (last_event' = "timeout" /\ last_event # "timeout") =>
                 /\ pc = "select"
                 /\ timeout = 0
                 /\ result' = TimeoutResult
                 /\ pc' = "done"
                 /\ d' = d
          /\ (pc = "select" /\ timeout = 0 /\ pc' = "done" /\ n_recv' = n_recv) =>
                 (result' = TimeoutResult /\ d' = d)
          /\ pc # "done"]_vars

\* C6 witness: a PUT with resend timeout 3000 and receive timeout 2000 that
\* was never answered has returned the timeout error with only the write
\* request emitted.
C6_Witness ==
    /\ role = "put"
    /\ call.opts.resend_timeout > call.opts.receive_timeout
    /\ n_recv = 0
    /\ result = TimeoutResult
    /\ Len(d.writer_chan) = 1

\* C7: the receive timer is armed once before the loop, with the caller's
\* receive timeout, and after that only at the top of the iteration that
\* follows the acceptance of the awaited packet (a Data block in GET, a
\* matching Acknowledgment that does not end the transfer in PUT), where
\* it always is; no other received packet asks for it: not the first-packet
\* option acknowledgment, not an ignored or foreign packet; nor does a
\* resend timeout.
C7_Rearm ==
    [][/\ (arm_count' # arm_count \/ timeout' > timeout) =>
              \/ /\ pc = "init"
                 /\ arm_count = 0 /\ arm_count' = 1
                 /\ timeout' = call.opts.receive_timeout
              \/ /\ pc = "loop" /\ pc' = "select"
                 /\ last_event = "progress"
                 /\ arm_count' = arm_count + 1
                 /\ timeout' = d.opts.receive_timeout
       /\ (pc = "loop" /\ pc' = "select" /\ last_event = "progress") =>
              arm_count' = arm_count + 1
       /\ (n_recv' = n_recv + 1 /\ last_event' # "progress") =>
              (reset_timeout' = reset_timeout /\ ~reset_timeout)
       /\ last_event' = "resend" => (reset_timeout' = reset_timeout /\ ~reset_timeout)
      ]_vars

\* C7 witness: a PUT took the first-packet option acknowledgment, a foreign
\* packet and a resend timeout, and its receive timer has still been armed
\* only once, before the loop.
C7_Witness ==
    /\ role = "put"
    /\ ~first
    /\ d.current_id = 1
    /\ n_recv = 2
    /\ last_event = "resend"
    /\ pc = "select"
    /\ arm_count = 1

\* ------------------------------------------------------------------------
\* Properties of the PUT role
\* ------------------------------------------------------------------------

\* C8: in a PUT that has bound its peer and has emitted the Data block of
\* the current counter, every resend timeout is followed by exactly one
\* more emission, to the bound peer, of a Data packet with the same block
\* id and the same payload as the first emission; the source is not read,
\* the counter and the options are unchanged, and the loop waits again.
\* After the call has returned there is no emission.
C8_Retransmission ==
    [][/\ (/\ role = "put"
           /\ ~first
           /\ pc = "loop"
           /\ last_event = "resend"
           /\ emitted_cur # <<>>) =>
              /\ emitted_cur[1][2].op = "DATA"
              /\ emitted_cur[1][2].block_id = d.current_id
              /\ d'.writer_chan = Append(d.writer_chan, <<d.remote_addr, emitted_cur[1][2]>>)
              /\ d'.path_handle = d.path_handle
              /\ d'.current_id = d.current_id
              /\ d'.opts = d.opts
              /\ pc' = "select"
       /\ result.tag # "Running" => d'.writer_chan = d.writer_chan
      ]_vars

\* C8 witness: after its first packet a PUT emitted Data(1) and, on two resend
\* timeouts, the same packet twice more, with one read of the source.
C8_Witness ==
    /\ role = "put"
    /\ ~first
    /\ n_recv = 1
    /\ last_event = "resend"
    /\ pc = "select"
    /\ Len(d.writer_chan) = 4
    /\ d.writer_chan[2][2].op = "DATA"
    /\ d.writer_chan[2][2].block_id = 1
    /\ Len(d.writer_chan[2][2].data) = 2
    /\ d.writer_chan[3] = d.writer_chan[2]
    /\ d.writer_chan[4] = d.writer_chan[2]
    /\ d.path_handle.reads = 1

\* The i-th chunk of bs bytes of a byte stream (empty past its end).
Chunk(src, bs, i) ==
    [j \in 1 .. (IF Len(src) >= i * bs THEN bs
                 ELSE IF Len(src) > (i - 1) * bs THEN Len(src) - (i - 1) * bs
                 ELSE 0) |-> src[(i - 1) * bs + j]]

\* The Data packets of chunks 1 .. m of the source, addressed to addr.
DataSeq(addr, src, bs, m) ==
    [i \in 1 .. m |-> <<addr, [op |-> "DATA", block_id |-> i, data |-> Chunk(src, bs, i)]>>]

\* The number of Data packets an in-order PUT has emitted after n packets
\* were received: Data(k + 1) follows the acceptance of ACK(k) at the top of
\* the next iteration, and none follows the one that ends the transfer.
DataEmitted(n) == IF n = 0 THEN 0 ELSE IF pc = "select" THEN n ELSE n - 1

\* C9: in a PUT where the peer's ACK(0), ACK(1), ... arrive in order, no
\* timer fires and every read of the source fills the buffer as far as the
\* source goes, the engine has emitted exactly the write request followed
\* by Data(1, c1), Data(2, c2), ... for the consecutive block-size chunks of
\* the source, Data(k + 1) only once ACK(k) was accepted; every chunk
\* before the last emitted one is a full block; and the call has returned
\* Ok exactly when the ACK just accepted is the one of a chunk shorter than
\* the block size (the default one, as no option acknowledgment is part of
\* the exchange); until then it is still running.
C9_PutInOrder ==
    (role = "put" /\ in_order /\ ~src_fault /\ pc # "init") =>
        /\ d.writer_chan =
               <<RequestOfPut>> \o DataSeq(d.remote_addr, d.path_handle.buf,
                                           DEFAULT_BLOCK_SIZE, DataEmitted(n_recv))
        /\ \A i \in 1 .. DataEmitted(n_recv) - 1 :
               Len(Chunk(d.path_handle.buf, DEFAULT_BLOCK_SIZE, i)) = DEFAULT_BLOCK_SIZE
        /\ result \in {Ok, Running}
        /\ (result = Ok) <=>
               (/\ n_recv >= 2
                /\ Len(Chunk(d.path_handle.buf, DEFAULT_BLOCK_SIZE, n_recv - 1))
                       < DEFAULT_BLOCK_SIZE)

\* C9 witness: a source of one block and one byte was sent as Data(1) and
\* Data(2) and the call returned Ok on ACK(2).
C9_Witness ==
    /\ role = "put" /\ in_order /\ ~src_fault
    /\ Len(d.path_handle.buf) = DEFAULT_BLOCK_SIZE + 1
    /\ n_recv = 3
    /\ Len(d.writer_chan) = 3
    /\ Len(d.writer_chan[2][2].data) = DEFAULT_BLOCK_SIZE
    /\ Len(d.writer_chan[3][2].data) = 1
    /\ result = Ok

\* C10 as stated: a PUT whose source has a length that is a multiple of the
\* session's block size (zero included), and whose reads fill the buffer
\* as far as the source goes, returns Ok only after it has emitted a Data
\* block with an empty payload and the id of that block was acknowledged:
\* when it has returned Ok, the counter is the id acknowledged last and an
\* empty Data block of that id is among the packets emitted.
C10_EmptyFinalBlock ==
    (/\ role = "put"
     /\ result = Ok
     /\ ~src_fault
     /\ Len(d.path_handle.buf) % d.opts.block_size = 0) =>
        \E i \in 1 .. Len(d.writer_chan) :
            d.writer_chan[i][2] = [op |-> "DATA", block_id |-> d.current_id, data |-> <<>>]

\* C10, the state that refutes it: a PUT called with block size 2 on a
\* source of 512 bytes has returned Ok on the server's ACK(0), having
\* emitted the write request and, on a resend timeout before that answer,
\* Data(0) with the first two bytes; no empty block was sent and 510 bytes
\* were never read.
C10_ReturnsEarly ==
    /\ role = "put"
    /\ result = Ok
    /\ ~src_fault
    /\ call.opts.block_size = 2
    /\ Len(d.path_handle.buf) = DEFAULT_BLOCK_SIZE
    /\ d.opts.block_size = DEFAULT_BLOCK_SIZE
    /\ n_recv = 1
    /\ d.current_id = 0
    /\ d.path_handle.pos = 2
    /\ Len(d.writer_chan) = 2
    /\ d.writer_chan[2][2] = [op |-> "DATA", block_id |-> 0,
                              data |-> SubSeq(d.path_handle.buf, 1, 2)]

\* ------------------------------------------------------------------------
\* Properties of packet handling: unexpected packets and options
\* ------------------------------------------------------------------------

\* C11: a PUT that has bound its peer and receives from it a packet it does
\* not expect (a Data packet, an Acknowledgment of another block id, an
\* option acknowledgment, a request) leaves the channel, the source, the
\* counter, the buffered block, the resend flag and the options as they
\* are, does not ask for the receive timer to be re-armed and stays in the
\* transfer; the top of the iteration that follows emits nothing, reads
\* nothing and does not re-arm the receive timer.
C11_PutIgnores ==
    [][/\ (/\ role = "put"
           /\ ~first
           /\ n_recv' = n_recv + 1
           /\ \/ last_event' = "ignored"
              \/ (/\ received'[1][1] = d.remote_addr
                  /\ received'[1][2].op \in {"DATA", "OACK", "RRQ", "WRQ"})) =>
              /\ last_event' = "ignored"
              /\ d' = d
              /\ reset_timeout' = reset_timeout
              /\ result' = result
              /\ pc' = "loop"
       /\ (role = "put" /\ ~first /\ pc = "loop" /\ last_event = "ignored") =>
              /\ d' = d
              /\ timeout' = timeout
              /\ arm_count' = arm_count
              /\ pc' = "select"
      ]_vars

\* C11 witness: a PUT that waits for ACK(1) received an Acknowledgment of
\* another block from the bound peer; it has emitted the write request and
\* Data(1) only and read the source once.
C11_Witness ==
    /\ role = "put" /\ ~first
    /\ last_event = "ignored"
    /\ received = <<(<<d.remote_addr, [op |-> "ACK"]>>)>>
    /\ pc = "loop"
    /\ d.current_id = 1
    /\ Len(d.writer_chan) = 2
    /\ d.path_handle.reads = 1
    /\ ~d.resend
    /\ ~reset_timeout

\* C12: an option acknowledgment that is received but is not the first
\* accepted packet (the peer is bound already, or the packet is discarded
\* for its source IP) changes neither the session's options nor the block
\* counter, makes the engine emit no Acknowledgment, and does not end the
\* call.
C12_LateOack ==
    [][(/\ n_recv' = n_recv + 1
        /\ received'[1][2].op = "OACK"
        /\ ~(first /\ ~first')) =>
           /\ d'.opts = d.opts
           /\ d'.current_id = d.current_id
           /\ \A i \in Len(d.writer_chan) + 1 .. Len(d'.writer_chan) :
                  d'.writer_chan[i][2].op # "ACK"
           /\ result' = result
      ]_vars

\* C12 witness: a GET whose first packet was an option acknowledgment with
\* block size 2 has received one more option acknowledgment from the bound
\* peer; the block size is 2 and only the read request and ACK(0) were
\* emitted.
C12_Witness ==
    /\ role = "get" /\ ~first
    /\ n_recv = 2
    /\ received = <<(<<d.remote_addr, [op |-> "OACK"]>>)>>
    /\ last_event = "ignored"
    /\ d.opts.block_size = 2
    /\ d.current_id = 1
    /\ Len(d.writer_chan) = 2
    /\ d.writer_chan[2][2] = [op |-> "ACK", block_id |-> 0]

\* C13: when the first accepted packet is not an option acknowledgment (and
\* not an Error, which ends the call unhandled), the session's options are
\* the defaults from the handling of that packet on, whatever the caller
\* asked for: the end-of-transfer test of that packet is made against the
\* default block size, and no later packet changes the options.
C13_RefusedNegotiation ==
    [][/\ (/\ first /\ ~first'
           /\ received'[1][2].op \notin {"OACK", "ERROR"}) =>
              /\ d'.opts = [mode |-> "octet", block_size |-> 512,
                            transfer_size |-> <<>>, receive_timeout |-> 5000,
                            resend_timeout |-> 1000, rollover |-> <<>>]
              /\ (role = "get" /\ last_event' = "progress" /\ ~sink_failed') =>
                     ((result' = Ok) <=> (Len(Last(accepted').data) < 512))
              /\ (role = "put" /\ last_event' = "progress") =>
                     ((result' = Ok) <=> (d.data # <<>> /\ Len(d.data[1]) < 512))
       /\ ~first => d'.opts = d.opts
      ]_vars

\* C13 witness: a GET that asked for block size 2 got Data(1) with 2 bytes
\* as first packet; its options are the defaults and the block, short of
\* 512 bytes, ended the transfer.
C13_Witness ==
    /\ role = "get"
    /\ call.opts.block_size = 2
    /\ n_recv = 1
    /\ received # <<>> /\ received[1][2].op = "DATA"
    /\ Len(accepted) = 1
    /\ Len(accepted[1].data) = 2
    /\ d.opts.block_size = 512
    /\ result = Ok

\* C16: after the first packet was accepted, a packet of any kind (an Error
\* packet included) whose source address is not the bound address makes the
\* engine emit exactly one Error(UnknownTransferId, "Unknown TID") addressed
\* to that source, and changes nothing else: bound address, counter,
\* options, resend flag, buffered block, sink and source, the re-arm flag of
\* the receive timer and the timer itself are as before, and the call goes
\* on.
C16_ForeignTid ==
    [][(/\ n_recv' = n_recv + 1
        /\ ~first
        /\ received'[1][1] # d.remote_addr) =>
           /\ d' = [d EXCEPT !.writer_chan =
                       Append(@, <<received'[1][1],
                                   [op |-> "ERROR", code |-> "UnknownTransferId",
                                    msg |-> <<85, 110, 107, 110, 111, 119, 110,
                                              32, 84, 73, 68>>]>>)]
           /\ first' = first
           /\ reset_timeout' = reset_timeout
           /\ timeout' = timeout
           /\ result' = Running
           /\ pc' = "loop"
      ]_vars

\* C16 witness: an Error packet from an address other than the bound one was
\* answered with the Unknown TID Error and the call is still running.
C16_Witness ==
    /\ ~first
    /\ pc = "loop"
    /\ result = Running
    /\ received # <<>>
    /\ received[1][1] # d.remote_addr
    /\ received[1][2].op = "ERROR"
    /\ Last(d.writer_chan)[1] = received[1][1]
    /\ Last(d.writer_chan)[2].op = "ERROR"
    /\ Last(d.writer_chan)[2].code = "UnknownTransferId"

\* C17: while no packet has been accepted, a packet whose source IP is the
\* targeted IP (any port) is accepted: the remote address becomes its full
\* source address and the first flag is cleared. A packet from another IP is
\* discarded: nothing is emitted, nothing changes, and the first flag stays
\* set. Once a packet was accepted the remote address never changes.
C17_FirstBinding ==
    [][/\ (n_recv' = n_recv + 1 /\ first) =>
              IF received'[1][1].ip = call.remote_addr.ip
              THEN /\ d'.remote_addr = received'[1][1]
                   /\ ~first'
              ELSE /\ d' = d
                   /\ first'
                   /\ reset_timeout' = reset_timeout
                   /\ timeout' = timeout
                   /\ result' = Running
                   /\ pc' = "loop"
       /\ first => d.remote_addr = call.remote_addr
       /\ ~first => (d'.remote_addr = d.remote_addr /\ ~first')
      ]_vars

\* C17 witness: after a packet from another IP was discarded, an option
\* acknowledgment from the targeted IP and another port than the targeted
\* one was accepted as first packet and the session is bound to that port.
C17_Witness ==
    /\ n_recv = 2
    /\ ~first
    /\ received # <<>>
    /\ received[1][1] = d.remote_addr
    /\ d.remote_addr.ip = call.remote_addr.ip
    /\ d.remote_addr.port # call.remote_addr.port
    /\ last_event = "oack"
    /\ received[1][2].op = "OACK"

\* C18: an Error packet that passes the address check (from the bound peer,
\* or as first packet from the targeted IP) ends the call at once with the
\* I/O error of kind Other whose detail is the packet's message; nothing is
\* emitted, and counter, options, buffered block, sink and source are as
\* before (the role's handler did not run): only the remote address is
\* bound if the packet was the first.
C18_FatalError ==
    [][(/\ n_recv' = n_recv + 1
        /\ received'[1][2].op = "ERROR"
        /\ IF first THEN received'[1][1].ip = d.remote_addr.ip
                    ELSE received'[1][1] = d.remote_addr) =>
           /\ result'.tag = "Err"
           /\ result'.err[1].kind = "OtherIoError"
           /\ result'.err[1].detail = <<received'[1][2].msg>>
           /\ pc' = "done"
           /\ d' = [d EXCEPT !.remote_addr = received'[1][1]]
           /\ reset_timeout' = reset_timeout
      ]_vars

\* C18 witness: a GET that negotiated block size 2 and acknowledged a block
\* got an Error from the bound peer and returned its message.
C18_Witness ==
    /\ role = "get"
    /\ pc = "done"
    /\ n_recv = 3
    /\ d.opts.block_size = 2
    /\ d.current_id = 2
    /\ received # <<>>
    /\ received[1][1] = d.remote_addr
    /\ received[1][2].op = "ERROR"
    /\ result.tag = "Err"
    /\ result.err[1].detail = <<received[1][2].msg>>

\* ------------------------------------------------------------------------
\* Properties of the option registry
\* ------------------------------------------------------------------------

\* The value the i-th function of fn_out was applied to.
ArgOf(i) == IF i = 1 THEN fn_in.v ELSE fn_out[i - 1].v

\* The text under key in the map m, <<>> around it; <<>> if the key is
\* absent.
TextOf(m, key) ==
    IF \E p \in m : p[1] = key
    THEN <<(CHOOSE p \in m : p[1] = key)[2]>>
    ELSE <<>>

\* s is a decimal number text.
IsNumber(s) == Len(s) > 0 /\ \A j \in 1 .. Len(s) : s[j] \in 48 .. 57

RECURSIVE NumberOf(_)
NumberOf(s) ==
    IF s = <<>> THEN 0 ELSE 10 * NumberOf(SubSeq(s, 1, Len(s) - 1)) + s[Len(s)] - 48

\* s is the decimal text of n: digits only, no leading zero.
IsDecimalOf(s, n) ==
    /\ IsNumber(s)
    /\ NumberOf(s) = n
    /\ (Len(s) > 1 => s[1] # 48)

\* C14: from_map's TransferOptions take block size, resend timeout,
\* transfer size and rollover from the texts under blksize, timeout, tsize
\* and rollover when the key is present and its text parses; every other
\* field (mode and receive timeout included) is the default, and keys that
\* are not recognized change nothing.  These are the session options after
\* a first-packet option acknowledgment, whatever the caller asked for.
C14_FromMap ==
    \A i \in 1 .. Len(fn_out) :
        fn_out[i].fn \in {"from_map", "oack_get", "oack_put"} =>
            LET m == ArgOf(i)
                o == fn_out[i].v
                blksize == TextOf(m, <<98, 108, 107, 115, 105, 122, 101>>)
                timeo == TextOf(m, <<116, 105, 109, 101, 111, 117, 116>>)
                tsize == TextOf(m, <<116, 115, 105, 122, 101>>)
                roll == TextOf(m, <<114, 111, 108, 108, 111, 118, 101, 114>>)
            IN /\ o.mode = "octet"
               /\ o.receive_timeout = 5000
               /\ o.block_size = IF blksize # <<>> /\ IsNumber(blksize[1])
                                 THEN NumberOf(blksize[1]) ELSE 512
               /\ o.resend_timeout = IF timeo # <<>> /\ IsNumber(timeo[1])
                                     THEN NumberOf(timeo[1]) ELSE 1000
               /\ o.transfer_size = IF tsize # <<>> /\ IsNumber(tsize[1])
                                    THEN <<NumberOf(tsize[1])>> ELSE <<>>
               /\ o.rollover = IF roll = << <<48>> >> THEN <<"Zero">>
                               ELSE IF roll = << <<49>> >> THEN <<"One">>
                               ELSE <<>>

\* C14 witness: a GET that asked for block size 8, resend timeout 3000 and
\* rollover to one got, as first packet, the option acknowledgment of a map
\* with blksize 8, a timeout text that does not parse and an unrecognized
\* key; the session has block size 8 and every other field at its default.
C14_Witness ==
    /\ fn_in.t = "map"
    /\ fn_in.v = {<<(<<98, 108, 107, 115, 105, 122, 101>>), (<<56>>)>>,
                  <<(<<116, 105, 109, 101, 111, 117, 116>>), (<<>>)>>,
                  <<(<<120>>), (<<56>>)>>}
    /\ Len(fn_out) = 1
    /\ fn_out[1].fn = "oack_get"
    /\ fn_out[1].v = [mode |-> "octet", block_size |-> 8, transfer_size |-> <<>>,
                      receive_timeout |-> 5000, resend_timeout |-> 1000,
                      rollover |-> <<>>]

\* C15: the map to_options produces has the key blksize iff the block size
\* is not 512, timeout iff the resend timeout is not 1000, tsize iff the
\* transfer size is present, rollover iff the rollover is present, each with
\* the decimal text of the field, and no other key; the default options
\* give the empty map.  The read request and the write request carry that
\* map.
C15_ToOptions ==
    \A i \in 1 .. Len(fn_out) :
        fn_out[i].fn \in {"to_options", "init_get", "init_put"} =>
            LET o == ArgOf(i)
                m == IF fn_out[i].fn = "to_options" THEN fn_out[i].v
                     ELSE fn_out[i].v.opts
                blksize == TextOf(m, <<98, 108, 107, 115, 105, 122, 101>>)
                timeo == TextOf(m, <<116, 105, 109, 101, 111, 117, 116>>)
                tsize == TextOf(m, <<116, 115, 105, 122, 101>>)
                roll == TextOf(m, <<114, 111, 108, 108, 111, 118, 101, 114>>)
            IN /\ \A p \in m : p[1] \in {<<98, 108, 107, 115, 105, 122, 101>>,
                                         <<116, 105, 109, 101, 111, 117, 116>>,
                                         <<116, 115, 105, 122, 101>>,
                                         <<114, 111, 108, 108, 111, 118, 101, 114>>}
               /\ \A p, q \in m : p[1] = q[1] => p = q
               /\ (blksize # <<>>) <=> (o.block_size # 512)
               /\ blksize # <<>> => IsDecimalOf(blksize[1], o.block_size)
               /\ (timeo # <<>>) <=> (o.resend_timeout # 1000)
               /\ timeo # <<>> => IsDecimalOf(timeo[1], o.resend_timeout)
               /\ (tsize # <<>>) <=> (o.transfer_size # <<>>)
               /\ tsize # <<>> => IsDecimalOf(tsize[1], o.transfer_size[1])
               /\ (roll # <<>>) <=> (o.rollover # <<>>)
               /\ roll # <<>> =>
                      roll[1] = (IF o.rollover[1] = "One" THEN <<49>> ELSE <<48>>)
               /\ (/\ o.block_size = 512 /\ o.resend_timeout = 1000
                   /\ o.transfer_size = <<>> /\ o.rollover = <<>>) => m = {}

\* C15 witness: a read request was built from options with block size 8,
\* transfer size 10, receive timeout 2000 and the default resend timeout and
\* rollover; it carries blksize 8 and tsize 10 and nothing else.
C15_Witness ==
    /\ fn_in.t = "opts"
    /\ fn_in.v.block_size = 8
    /\ fn_in.v.receive_timeout = 2000
    /\ fn_in.v.resend_timeout = 1000
    /\ fn_in.v.rollover = <<>>
    /\ Len(fn_out) = 1
    /\ fn_out[1].fn = "init_get"
    /\ fn_out[1].v.op = "RRQ"
    /\ fn_out[1].v.opts = {<<(<<98, 108, 107, 115, 105, 122, 101>>), (<<56>>)>>,
                           <<(<<116, 115, 105, 122, 101>>), (<<49, 48>>)>>}

\* ------------------------------------------------------------------------
\* Properties of the codec
\* ------------------------------------------------------------------------

\* The options of a packet; none for the variants without options.
OptionsOf(p) == IF p.op \in {"RRQ", "WRQ", "OACK"} THEN p.opts ELSE {}

\* The strings of a packet: file name, error message, option keys and texts.
StringsOf(p) ==
    (IF p.op \in {"RRQ", "WRQ"} THEN {p.filename} ELSE {})
    \cup (IF p.op = "ERROR" THEN {p.msg} ELSE {})
    \cup {e[1] : e \in OptionsOf(p)}
    \cup {e[2] : e \in OptionsOf(p)}

\* No string of the packet holds a NUL byte and no option key an upper-case
\* ASCII letter.
Canonical(p) ==
    /\ \A str \in StringsOf(p) : \A j \in 1 .. Len(str) : str[j] # 0
    /\ \A e \in OptionsOf(p) : \A j \in 1 .. Len(e[1]) : e[1][j] \notin 65 .. 90

\* C19, as stated: whenever decode is applied to what encode made of a
\* packet, in the same mode, it succeeds and gives that packet.
C19_RoundTrip ==
    \A i \in 1 .. Len(fn_out) - 1 :
        (fn_out[i].fn = "encode" /\ fn_out[i + 1].fn = "decode") =>
            /\ fn_out[i + 1].t = "packet"
            /\ fn_out[i + 1].v = ArgOf(i)

\* C19, amended: the same for the packets none of whose strings holds a NUL
\* byte and none of whose option keys holds an upper-case ASCII letter, in
\* both modes and whatever the order in which encode writes the options.
C19_RoundTripCanonical ==
    \A i \in 1 .. Len(fn_out) - 1 :
        (/\ fn_out[i].fn = "encode"
         /\ fn_out[i + 1].fn = "decode"
         /\ Canonical(ArgOf(i))) =>
            /\ fn_out[i + 1].t = "packet"
            /\ fn_out[i + 1].v = ArgOf(i)

\* C19 witness: in netascii mode a Data packet whose block id is 0x0D0A and
\* whose payload is CR LF "a" was encoded, with the payload's CR and LF
\* escaped and the block id as it is, and decoded to itself.
C19_Witness ==
    /\ fn_in.t = "packet"
    /\ fn_in.mode = "netascii"
    /\ fn_in.v = [op |-> "DATA", block_id |-> 3338, data |-> <<13, 10, 97>>]
    /\ Len(fn_out) = 2
    /\ fn_out[1].fn = "encode"
    /\ fn_out[1].v = <<0, 3, 13, 10, 13, 0, 13, 10, 97>>
    /\ fn_out[2].fn = "decode"
    /\ fn_out[2].v = fn_in.v

\* C20, as stated: whenever encode is applied to the packet decode made of a
\* buffer, in the same mode, the buffer is an encoding of that packet: what
\* encode writes for one of the orders of the packet's options.
C20_DecodeEncode ==
    \A i \in 1 .. Len(fn_out) - 1 :
        (/\ fn_out[i].fn = "decode"
         /\ fn_out[i].t = "packet"
         /\ fn_out[i + 1].fn = "encode") =>
            \E keys \in KeyOrders(OptionsOf(fn_out[i].v)) :
                ArgOf(i) = encode(fn_in.mode, fn_out[i].v, keys).v

\* C20, amended: whenever decode accepts a buffer, what encode makes of the
\* packet is accepted by decode and gives the same packet again (the
\* encoding itself may differ from the buffer).
C20_Redecode ==
    \A i \in 1 .. Len(fn_out) - 2 :
        (/\ fn_out[i].fn = "decode"
         /\ fn_out[i].t = "packet"
         /\ fn_out[i + 1].fn = "encode"
         /\ fn_out[i + 2].fn = "decode") =>
            /\ fn_out[i + 2].t = "packet"
            /\ fn_out[i + 2].v = fn_out[i].v

\* C20 witness: an Error buffer whose message has no terminating NUL was
\* decoded, the packet was encoded to a buffer one byte longer, and that
\* buffer was decoded to the same packet.
C20_Witness ==
    /\ fn_in.t = "bytes"
    /\ fn_in.v = <<0, 5, 0, 1, 97>>
    /\ Len(fn_out) = 3
    /\ fn_out[1].fn = "decode"
    /\ fn_out[1].v = [op |-> "ERROR", code |-> "FileNotFound", msg |-> <<97>>]
    /\ fn_out[2].fn = "encode"
    /\ fn_out[2].v = <<0, 5, 0, 1, 97, 0>>
    /\ fn_out[3].fn = "decode"
    /\ fn_out[3].v = fn_out[1].v

\* The text with its upper-case ASCII letters replaced by the lower-case
\* ones.
Lowered(str) == [j \in 1 .. Len(str) |-> IF str[j] \in 65 .. 90 THEN str[j] + 32 ELSE str[j]]

\* C21: the option keys decode stores are the wire keys in ASCII lower case,
\* with the wire texts as they are.  No stored key holds an upper-case
\* letter and no key is stored twice; an OACK of one pair gives that pair
\* with the key lowered and the text untouched; the options decoded from the
\* encoding of a packet (whose strings hold no NUL) are the packet's options
\* with their keys lowered, wire keys that differ in case only giving one
\* entry.
C21_KeysLowered ==
    \A i \in 1 .. Len(fn_out) :
        (/\ fn_out[i].fn = "decode"
         /\ fn_out[i].t = "packet"
         /\ fn_out[i].v.op \in {"RRQ", "WRQ", "OACK"}) =>
            LET stored == fn_out[i].v.opts
            IN /\ \A e \in stored : e[1] = Lowered(e[1])
               /\ \A e, f \in stored : e[1] = f[1] => e = f
               /\ \A k, v \in {<<97>>, <<65>>, <<97, 65>>, <<65, 65>>} :
                      ArgOf(i) = <<0, 6>> \o k \o <<0>> \o v \o <<0>> =>
                          stored = {<<Lowered(k), v>>}
               /\ (/\ i > 1
                   /\ fn_out[i - 1].fn = "encode"
                   /\ \A str \in StringsOf(ArgOf(i - 1)) :
                          \A j \in 1 .. Len(str) : str[j] # 0) =>
                      /\ \A e \in stored :
                             \E w \in OptionsOf(ArgOf(i - 1)) :
                                 e = <<Lowered(w[1]), w[2]>>
                      /\ \A w \in OptionsOf(ArgOf(i - 1)) :
                             \E e \in stored : e[1] = Lowered(w[1])

\* C21 witness: an OACK with the options "a" -> "" and "A" -> "v" was
\* written with "a" first and decoded to the one option "a" -> "v".
C21_Witness ==
    /\ fn_in.t = "packet"
    /\ fn_in.v = [op |-> "OACK", opts |-> {<<(<<97>>), (<<>>)>>, <<(<<65>>), (<<118>>)>>}]
    /\ Len(fn_out) = 2
    /\ fn_out[1].fn = "encode"
    /\ fn_out[1].v = <<0, 6, 97, 0, 0, 65, 0, 118, 0>>
    /\ fn_out[2].fn = "decode"
    /\ fn_out[2].v = [op |-> "OACK", opts |-> {<<(<<97>>), (<<118>>)>>}]

\* C22, as stated: a request whose mode text is "octet" or "netascii" in any
\* letter case decodes to a request of that mode, and the mode text encode
\* writes is the lower-case one.
C22_ModeAnyCase ==
    \A i \in 1 .. Len(fn_out) :
        /\ (/\ fn_out[i].fn = "decode"
            /\ \E op \in {1, 2}, f \in {<<>>, <<97>>} :
                 \E m \in {<<111, 99, 116, 101, 116>>, <<79, 67, 84, 69, 84>>,
                           <<110, 101, 116, 97, 115, 99, 105, 105>>} :
                    ArgOf(i) = <<0, op>> \o f \o <<0>> \o m \o <<0>>) =>
               /\ fn_out[i].t = "packet"
               /\ fn_out[i].v.mode =
                      (IF Len(ArgOf(i)) \in {9, 10} THEN "octet" ELSE "netascii")
        /\ (/\ fn_out[i].fn = "encode"
            /\ ArgOf(i).op \in {"RRQ", "WRQ"}) =>
               LET text == IF ArgOf(i).mode = "octet"
                           THEN <<111, 99, 116, 101, 116>>
                           ELSE <<110, 101, 116, 97, 115, 99, 105, 105>>
                   at == 3 + Len(ArgOf(i).filename)
               IN SubSeq(fn_out[i].v, at, at + Len(text) + 1) = <<0>> \o text \o <<0>>

\* C22, the failing case: the read request for "a" with the mode text
\* "OCTET" was refused by decode as invalid input, "Mode not recognized".
C22_UpperCaseRefused ==
    /\ fn_in.t = "bytes"
    /\ fn_in.v = <<0, 1, 97, 0, 79, 67, 84, 69, 84, 0>>
    /\ Len(fn_out) = 1
    /\ fn_out[1].fn = "decode"
    /\ fn_out[1].t = "err"
    /\ fn_out[1].v = [kind |-> "InvalidInput", desc |-> "Mode not recognized",
                      detail |-> <<>>]

\* A netascii payload in which some CR is followed neither by LF nor by
\* NUL, the CR that ends the payload included.
RECURSIVE MalformedNetascii(_)
MalformedNetascii(s) ==
    IF s = <<>> THEN FALSE
    ELSE IF s[1] # 13 THEN MalformedNetascii(Tail(s))
    ELSE IF Len(s) = 1 THEN TRUE
    ELSE IF s[2] \notin {0, 10} THEN TRUE
    ELSE MalformedNetascii(SubSeq(s, 3, Len(s)))

\* The bytes of the buffer from position from up to the next NUL or to the
\* end.
FieldAt(b, from) ==
    LET nuls == {j \in from .. Len(b) : b[j] = 0}
        stop == IF nuls = {} THEN Len(b) + 1
                ELSE CHOOSE j \in nuls : \A g \in nuls : j <= g
    IN SubSeq(b, from, stop - 1)

\* C23, as stated: decode answers with an error of kind InvalidInput to an
\* opcode outside 1 .. 6, to a request whose mode text is no mode, to an
\* Error packet whose code is outside 0 .. 8, to a netascii Data payload in
\* which a CR is followed neither by LF nor by NUL (the CR that ends the
\* buffer included) and to a file name, mode text or error message that is
\* not UTF-8; every other Data buffer with a block id decodes, whatever the
\* length of its payload.
C23_InvalidInput ==
    \A i \in 1 .. Len(fn_out) :
        fn_out[i].fn = "decode" /\ Len(ArgOf(i)) >= 2 =>
            LET b == ArgOf(i)
                opcode == b[1] * 256 + b[2]
                invalid == fn_out[i].t = "err" /\ fn_out[i].v.kind = "InvalidInput"
                name == FieldAt(b, 3)
                mode == FieldAt(b, 4 + Len(name))
            IN /\ opcode \notin 1 .. 6 => invalid
               /\ (/\ opcode \in {1, 2}
                   /\ Len(b) >= 4 + Len(name)
                   /\ \/ 255 \in {name[j] : j \in 1 .. Len(name)}
                      \/ mode \notin {<<111, 99, 116, 101, 116>>,
                                      <<110, 101, 116, 97, 115, 99, 105, 105>>}) =>
                      invalid
               /\ (/\ opcode = 5
                   /\ Len(b) >= 5
                   /\ \/ b[3] * 256 + b[4] > 8
                      \/ 255 \in {FieldAt(b, 5)[j] : j \in 1 .. Len(FieldAt(b, 5))}) =>
                      invalid
               /\ (opcode = 3 /\ Len(b) >= 4) =>
                      IF fn_in.mode = "netascii" /\ MalformedNetascii(SubSeq(b, 5, Len(b)))
                      THEN invalid
                      ELSE fn_out[i].t = "packet" /\ fn_out[i].v.op = "DATA"

\* C23, the failing case: in netascii mode the Data buffer of block 0 whose
\* payload is "a" CR was refused with the end-of-file error.
C23_LoneCrEndOfFile ==
    /\ fn_in.t = "bytes"
    /\ fn_in.mode = "netascii"
    /\ fn_in.v = <<0, 3, 0, 0, 97, 13>>
    /\ Len(fn_out) = 1
    /\ fn_out[1].fn = "decode"
    /\ fn_out[1].t = "err"
    /\ fn_out[1].v.kind = "EndOfFile"

\* The acknowledgments of Data blocks a GET has emitted, in order (the
\* Acknowledgment(0) that answers an option acknowledgment is not one: the
\* counter starts at 1 and does not wrap within these runs).
BlockAcks == SelectSeq(d.writer_chan, LAMBDA e : e[2].op = "ACK" /\ e[2].block_id # 0)

\* The accepted Data blocks the sink took: all of them, but the last one when
\* the sink refused it.
Written == IF sink_failed THEN Front(accepted) ELSE accepted

\* C24: in a GET, the step in which the sink refuses the payload of the
\* awaited Data block returns the sink's error to the caller at once, with
\* nothing added to the writer channel and nothing written; at every moment
\* the acknowledgments of Data blocks emitted are those of the blocks the
\* sink took, in order, so no block is acknowledged before its write
\* succeeded and the refused block never is; once the write failed the call
\* has returned and the writer channel does not change any more.
C24_SinkFailure ==
    /\ [](role = "get" =>
            /\ Len(BlockAcks) = Len(Written)
            /\ \A i \in 1 .. Len(Written) :
                   BlockAcks[i] = <<d.remote_addr, Acknowledgment(Written[i].block_id)>>
            /\ sink_failed => (pc = "done" /\ result = Err(ErrSink)))
    /\ [][role = "get" =>
            /\ (~sink_failed /\ sink_failed') =>
                   /\ pc = "select" /\ pc' = "done"
                   /\ result = Running /\ result' = Err(ErrSink)
                   /\ accepted' # accepted
                   /\ d'.writer_chan = d.writer_chan
                   /\ d'.path_handle = d.path_handle
            /\ sink_failed => d'.writer_chan = d.writer_chan]_vars

\* C24 witness: the sink took block 1 and refused block 2; the call returned
\* the sink's error with the request and ACK(1) emitted and nothing else.
C24_Witness ==
    /\ role = "get" /\ sink_failed
    /\ Len(accepted) = 2
    /\ result = Err(ErrSink)
    /\ d.writer_chan = <<RequestOfGet, <<d.remote_addr, Acknowledgment(1)>>>>
    /\ d.path_handle = accepted[1].data

\* loop_start of a PUT must buffer a block: the resend flag is set and no
\* block is held.
MustBuffer == role = "put" /\ pc = "loop" /\ d.resend /\ ~IsSome(d.data)

\* C25: in the PUT iteration whose loop_start must buffer a block the source
\* is read once. If the read fails with an error other than end-of-file the
\* call returns that error at once: no Data packet is emitted, no block is
\* held and the resend flag stays set. Otherwise the block read is held and
\* emitted as Data with the current counter to the remote address and the
\* resend flag is cleared; a read at the end of the source that reports
\* end-of-file (as an error or as a count of zero) never ends the call: the
\* block is empty and an empty Data packet is emitted.
C25_SourceRead ==
    [][MustBuffer =>
        /\ d'.path_handle.reads = d.path_handle.reads + 1
        /\ IF result' # Running
           THEN /\ result' = Err(ErrSource) /\ pc' = "done"
                /\ src_fault'
                /\ d'.writer_chan = d.writer_chan
                /\ d'.resend /\ d'.data = None
           ELSE /\ pc' = "select"
                /\ IsSome(d'.data)
                /\ d'.writer_chan =
                       Append(d.writer_chan,
                              <<d.remote_addr, Data(d.current_id, Unwrap(d'.data))>>)
                /\ ~d'.resend
                /\ Remaining(d.path_handle) = 0 => Unwrap(d'.data) = <<>>
        /\ (Remaining(d.path_handle) = 0 /\ ~src_fault') => result' = Running
    ]_vars

\* C25 witness: the only read of an empty source reported the end of the
\* stream, and the empty block was emitted as Data(1).
C25_Witness ==
    /\ role = "put" /\ ~src_fault /\ pc = "select"
    /\ Len(d.path_handle.buf) = 0 /\ d.path_handle.reads = 1
    /\ d.data = Some(<<>>)
    /\ Last(d.writer_chan) = <<d.remote_addr, Data(1, <<>>)>>

\* The step that accepts an option acknowledgment as the first packet.
FirstOackStep ==
    /\ n_recv' = n_recv + 1
    /\ first /\ ~first'
    /\ received'[1][2].op = "OACK"

\* C26 as stated: the step that accepts an option acknowledgment as the
\* first packet adopts its options; a GET emits in it exactly one packet,
\* Acknowledgment(0), to the address it has just bound and keeps its counter
\* at 1; a PUT advances its counter from 0 to 1 and emits nothing, and the
\* iteration that follows reads the first block of the source and emits
\* Data(1, block) to the bound peer (unless the read fails).
C26_FirstOack ==
    [][/\ FirstOackStep =>
           /\ \E m \in OackMaps : d'.opts = from_map(m)
           /\ d'.remote_addr = received'[1][1]
           /\ result' = Running /\ pc' = "loop"
           /\ IF role = "get"
              THEN /\ d'.writer_chan =
                         Append(d.writer_chan, <<d'.remote_addr, Acknowledgment(0)>>)
                   /\ d.current_id = 1 /\ d'.current_id = 1
              ELSE /\ d'.writer_chan = d.writer_chan
                   /\ d.current_id = 0 /\ d'.current_id = 1
       /\ (role = "put" /\ pc = "loop" /\ last_event = "oack") =>
           /\ d.path_handle.pos = 0
           /\ d'.path_handle.reads = d.path_handle.reads + 1
           /\ IF result' # Running
              THEN src_fault' /\ d'.writer_chan = d.writer_chan
              ELSE d'.writer_chan =
                       Append(d.writer_chan,
                              <<d.remote_addr,
                                Data(1, SubSeq(d.path_handle.buf, 1, d'.path_handle.pos))>>)
      ]_vars

\* C26, the state that refutes it: a PUT called with block size 2 emitted
\* Data(0) with the first two bytes on a resend timeout before any answer;
\* the first packet then was an option acknowledgment of block size 1, and
\* the next iteration emitted Data(1) with the two bytes held, without
\* reading the source.
C26_StaleFirstBlock ==
    /\ role = "put" /\ pc = "select" /\ last_event = "oack"
    /\ n_recv = 1
    /\ call.opts.block_size = 2 /\ d.opts.block_size = 1
    /\ d.path_handle.reads = 1 /\ d.path_handle.pos = 2
    /\ Len(d.writer_chan) = 3
    /\ d.writer_chan[2][2] = Data(0, SubSeq(d.path_handle.buf, 1, 2))
    /\ d.writer_chan[3] = <<d.remote_addr, Data(1, SubSeq(d.path_handle.buf, 1, 2))>>

\* The packets a step adds to the writer channel, each with its address.
Emitted == {d'.writer_chan[i] : i \in Len(d.writer_chan) + 1 .. Len(d'.writer_chan)}

\* C27: in every step of a transfer the IP of LoopData's remote address stays
\* what it is; the remote address changes only in the step that accepts the
\* first packet and never once the peer is bound; every Acknowledgment and
\* Data packet a step emits is addressed to the remote address as it is
\* after the step (the bound one once the peer is bound), and a packet that
\* is addressed to any other address is the Unknown TID Error, sent to the
\* source of the packet just received.
C27_TidFreeze ==
    [][/\ d'.remote_addr.ip = d.remote_addr.ip
       /\ d'.remote_addr.ip = call.remote_addr.ip
       /\ d'.remote_addr # d.remote_addr => (first /\ ~first')
       /\ ~first => d'.remote_addr = d.remote_addr
       /\ \A e \in Emitted :
              /\ e[2].op \in {"ACK", "DATA"} => e[1] = d'.remote_addr
              /\ e[1] # d'.remote_addr =>
                     /\ e[2].op = "ERROR" /\ e[2].code = "UnknownTransferId"
                     /\ ~first
                     /\ e[1] = received'[1][1]
      ]_vars

\* C27 witness: a GET bound to the server's port 2048 has emitted the request
\* to port 69, ACK(1) to port 2048, the Unknown TID Error to another address
\* and then ACK(2) to port 2048.
C27_Witness ==
    /\ role = "get" /\ ~first
    /\ call.remote_addr.port = 69 /\ d.remote_addr.port = 2048
    /\ Len(d.writer_chan) = 4
    /\ d.writer_chan[1][1] = call.remote_addr
    /\ d.writer_chan[2] = <<d.remote_addr, Acknowledgment(1)>>
    /\ d.writer_chan[3][1] # d.remote_addr
    /\ d.writer_chan[3][2].op = "ERROR"
    /\ d.writer_chan[4] = <<d.remote_addr, Acknowledgment(2)>>

\* C28 as stated: for every draw of random::<u16>() the port
\* random_ephemeral_port returns is in 49152 .. 65535 and is the sum the
\* code writes without wrapping around u16; and every port of 49152 .. 65535
\* is returned for at least one draw (looked at once, in the state of
\* draw 0).
C28_PortRange ==
    (fn_in.t = "draw" /\ fn_out # <<>>) =>
        /\ Cur.v = random_ephemeral_port(fn_in.v)
        /\ 49152 <= Cur.v /\ Cur.v <= 65535
        /\ Cur.v = (fn_in.v % (65535 - 49152)) + 49152
        /\ fn_in.v = 0 =>
               49152 .. 65535 \subseteq {random_ephemeral_port(r) : r \in FnDraws}

\* C28, the state that shows the failure: the draw 16382 gives 65534, the
\* next draw gives 49152 again, and no draw gives 65535.
C28_TopPortMissing ==
    /\ fn_in.t = "draw" /\ fn_out # <<>>
    /\ fn_in.v = 16382
    /\ Cur.v = 65534
    /\ random_ephemeral_port(fn_in.v + 1) = 49152
    /\ \A r \in FnDraws : random_ephemeral_port(r) # 65535

\* The fields of a buffer: the runs of bytes that a NUL ends, and the bytes
\* after the last NUL if there are any.
RECURSIVE FieldsOf(_)
FieldsOf(b) ==
    IF b = <<>> THEN <<>>
    ELSE LET n == IF \E i \in 1 .. Len(b) : b[i] = 0
                  THEN CHOOSE i \in 1 .. Len(b) :
                           b[i] = 0 /\ \A j \in 1 .. i - 1 : b[j] # 0
                  ELSE Len(b) + 1
         IN <<SubSeq(b, 1, n - 1)>> \o FieldsOf(SubSeq(b, n + 1, Len(b)))

\* The options the fields give: the pairs (key, text) of the fields taken two
\* by two up to the first pair that is incomplete or holds a field that is
\* not a string; the key in lower case, a later pair replacing an earlier
\* one of the same key.
PairsOf(b) ==
    LET F == FieldsOf(b)
        good == {n \in 0 .. Len(F) \div 2 : \A j \in 1 .. 2 * n : IsUtf8(F[j])}
        np == CHOOSE n \in good : \A m \in good : m <= n
    IN {<<Lowered(F[2 * j - 1]), F[2 * j]>> : j \in
           {j \in 1 .. np : \A g \in j + 1 .. np :
                               Lowered(F[2 * g - 1]) # Lowered(F[2 * j - 1])}}

\* C29: read_to(buf, 0) on a buffer that holds a NUL returns the bytes before
\* the first NUL and leaves the reader after that NUL; on a buffer that is
\* not empty and holds no NUL it returns the whole buffer; on an empty
\* buffer it returns the end-of-file error (the field is absent).
\* decode_options always returns a map: the pairs of the fields of the
\* buffer up to the first pair that is incomplete or invalid, so that a last
\* text without its NUL is kept and a last key without a text is dropped.
\* decode of an option acknowledgment never fails and gives these options
\* of the bytes after the opcode.
C29_TolerantFields ==
    \A i \in 1 .. Len(fn_out) :
        /\ fn_out[i].fn = "read_to" =>
               LET b == ArgOf(i)
                   nuls == {k \in 1 .. Len(b) : b[k] = 0}
               IN IF b = <<>>
                  THEN fn_out[i].t = "err" /\ fn_out[i].v.kind = "EndOfFile"
                  ELSE /\ fn_out[i].t = "field"
                       /\ fn_out[i].v.v = FieldsOf(b)[1]
                       /\ \A k \in 1 .. Len(fn_out[i].v.v) : fn_out[i].v.v[k] # 0
                       /\ IF nuls = {}
                          THEN fn_out[i].v.v = b /\ fn_out[i].v.pos = Len(b) + 1
                          ELSE /\ Len(fn_out[i].v.v) + 1 \in nuls
                               /\ fn_out[i].v.v = SubSeq(b, 1, Len(fn_out[i].v.v))
                               /\ fn_out[i].v.pos = Len(fn_out[i].v.v) + 2
        /\ fn_out[i].fn = "decode_options" =>
               /\ fn_out[i].t = "map"
               /\ fn_out[i].v = PairsOf(ArgOf(i))
        /\ (/\ fn_out[i].fn = "decode"
            /\ Len(ArgOf(i)) >= 2
            /\ SubSeq(ArgOf(i), 1, 2) = <<0, 6>>) =>
               /\ fn_out[i].t = "packet"
               /\ fn_out[i].v.op = "OACK"
               /\ fn_out[i].v.opts = PairsOf(SubSeq(ArgOf(i), 3, Len(ArgOf(i))))

\* C29 witness: decode_options was applied to "a" NUL "A" NUL "a": the text
\* of the first pair is kept and the key that no text follows is dropped.
C29_Witness ==
    /\ fn_in.t = "fields"
    /\ fn_in.v = <<97, 0, 65, 0, 97>>
    /\ Len(fn_out) = 1
    /\ fn_out[1].fn = "decode_options"
    /\ fn_out[1].v = {<<(<<97>>), (<<65>>)>>}

\* ------------------------------------------------------------------------
\* Properties of the writer task
\* ------------------------------------------------------------------------

\* How many items the task has taken from the channel.
Taken == Len(wr.fate) + Len(wr.cur)

\* The datagram of an item: its address and the encoding of its packet (the
\* items have at most one option, so the encoding is one).
DatagramOf(item) ==
    LET opts == IF item[2].op \in {"RRQ", "WRQ", "OACK"} THEN item[2].opts ELSE {}
    IN <<item[1], encode(wr.mode, item[2], CHOOSE k \in KeyOrders(opts) : TRUE).v>>

\* The datagrams of the first n items handed to the channel, without those
\* of the items that were dropped.
RECURSIVE Delivered(_)
Delivered(n) ==
    IF n = 0 THEN <<>>
    ELSE Delivered(n - 1) \o
         (IF wr.fate[n] = "sent" THEN <<DatagramOf(wr.enq[n])>> ELSE <<>>)

\* C30: the writer task takes the items in the order the engine handed them
\* to the channel: the items handed over are those handled, then the one in
\* hand, then those still in the channel. What the socket took is, in that
\* order, the encoding of every handled item whose send did not fail, each
\* to its address: a failure drops that one item and the items after it are
\* sent. The task has exited only if the Sender is gone, the channel is
\* empty and every item handed over was handled.
C30_WriterOrder ==
    /\ Taken <= Len(wr.enq)
    /\ wr.chan = SubSeq(wr.enq, Taken + 1, Len(wr.enq))
    /\ IsSome(wr.cur) => (wr.pc = "send" /\ Unwrap(wr.cur) = wr.enq[Taken])
    /\ wr.pc # "send" => wr.cur = None
    /\ wr.socket = Delivered(Len(wr.fate))
    /\ wr.pc = "exit" =>
           /\ ~wr.open
           /\ wr.chan = <<>>
           /\ Len(wr.fate) = Len(wr.enq)

\* C30 witness: three items were handed over, the second of them the last
\* Acknowledgment before the Sender was dropped; the send of the first
\* failed, the two others went out in order, and the task has exited.
C30_Witness ==
    /\ pc = "writer"
    /\ wr.pc = "exit"
    /\ Len(wr.enq) = 3
    /\ wr.enq[2] = <<ServerAddr, Acknowledgment(1)>>
    /\ wr.enq[3][2].op = "ERROR"
    /\ wr.fate = <<"dropped", "sent", "sent">>
    /\ Len(wr.socket) = 2
    /\ wr.socket[1] = <<ServerAddr, <<0, 4, 0, 1>>>>

\* ------------------------------------------------------------------------
\* Properties under timer interleavings
\* ------------------------------------------------------------------------

\* C33 as stated: a PUT that has not accepted a first packet has emitted
\* nothing but the write request and has not read the source; and, the
\* counter not having wrapped, every Data packet a PUT has emitted has a
\* block id of 1 or more.
C33_NoDataBeforeAnswer ==
    role = "put" =>
        /\ first => (/\ \A i \in 1 .. Len(d.writer_chan) : d.writer_chan[i][2].op # "DATA"
                     /\ d.path_handle.reads = 0)
        /\ \A i \in 1 .. Len(d.writer_chan) :
               d.writer_chan[i][2].op = "DATA" => d.writer_chan[i][2].block_id >= 1

\* C33, the state that refutes it: no packet was received, the resend timer
\* fired once, and the PUT has read the source and emitted Data(0) with the
\* first block after the write request.
C33_DataBeforeAnswer ==
    /\ role = "put" /\ first
    /\ Len(d.path_handle.buf) = DEFAULT_BLOCK_SIZE
    /\ n_recv = 0
    /\ last_event = "resend"
    /\ pc = "select"
    /\ d.path_handle.reads = 1
    /\ d.writer_chan =
           <<RequestOfPut,
             <<call.remote_addr,
               Data(0, SubSeq(d.path_handle.buf, 1, call.opts.block_size))>>>>

\* Every packet the PUT received was the server's reply in order: an
\* Acknowledgment of the counter of its time or, as first packet, an option
\* acknowledgment.  Each of them moves the counter by one but the
\* Acknowledgment that ends the call, and no other packet moves it.
RepliesInOrder ==
    \/ d.current_id = n_recv
    \/ result = Ok /\ d.current_id = n_recv - 1

\* The block ids of the Data packets emitted.
DataIds ==
    {d.writer_chan[k][2].block_id :
        k \in {k \in 1 .. Len(d.writer_chan) : d.writer_chan[k][2].op = "DATA"}}

\* The payload of the first Data packet emitted with block id i.
FirstData(i) ==
    LET hits == {k \in 1 .. Len(d.writer_chan) :
                    d.writer_chan[k][2].op = "DATA" /\ d.writer_chan[k][2].block_id = i}
    IN d.writer_chan[CHOOSE k \in hits : \A g \in hits : k <= g][2].data

\* The payloads of blocks 1 .. n, one emission per id, concatenated.
RECURSIVE Sent(_)
Sent(n) == IF n = 0 THEN <<>> ELSE Sent(n - 1) \o FirstData(n)

\* C34 as stated: when a PUT whose received packets were the server's
\* replies in order, with resend timeouts anywhere between them (and whose
\* source fills every read as far as it goes), has returned Ok, the Data
\* packets it emitted have the block ids 1 .. n, their payloads, one per
\* id, concatenate to the whole source, and no payload is longer than the
\* session's block size.
C34_PutIntegrity ==
    (role = "put" /\ result = Ok /\ RepliesInOrder /\ ~src_fault) =>
        LET n == Cardinality(DataIds)
        IN /\ DataIds = 1 .. n
           /\ Sent(n) = d.path_handle.buf
           /\ \A k \in 1 .. Len(d.writer_chan) :
                  d.writer_chan[k][2].op = "DATA" =>
                      Len(d.writer_chan[k][2].data) <= d.opts.block_size

\* C34, the state that refutes it: a PUT with block size 2 on a source of
\* 513 bytes emitted Data(0) with two bytes on a resend timeout before any
\* answer and returned Ok on the server's ACK(0): 511 bytes were never sent
\* and the two that were went out under block id 0 only.
C34_SourceNotSent ==
    /\ role = "put" /\ result = Ok /\ RepliesInOrder /\ ~src_fault
    /\ Len(d.path_handle.buf) = DEFAULT_BLOCK_SIZE + 1
    /\ n_recv = 1
    /\ DataIds = {0}
    /\ d.path_handle.pos = 2

\* C32: in a GET the resend timer is armed with the duration that never
\* expires and the select never returns it; loop_start changes nothing. The
\* writer channel starts with the one read request and gets exactly one
\* Acknowledgment(0) in the step that accepts a first-packet option
\* acknowledgment, exactly one Acknowledgment(k) in the step that accepts
\* Data block k (and the sink takes it), the Unknown TID Error in the step
\* that receives a foreign packet, and nothing in any other step: no request
\* and no Acknowledgment is emitted a second time, whatever the peer sends
\* again and however long the engine waits.
C32_GetNeverResends ==
    /\ [](role = "get" =>
            /\ resend_timeout = Never
            /\ last_event # "resend"
            /\ pc # "init" =>
                   /\ d.writer_chan[1] = RequestOfGet
                   /\ \A i \in 2 .. Len(d.writer_chan) : d.writer_chan[i][2].op # "RRQ"
            /\ \A i, j \in 1 .. Len(d.writer_chan) :
                   (i # j /\ d.writer_chan[i][2].op = "ACK") =>
                       d.writer_chan[i] # d.writer_chan[j])
    /\ [][role = "get" =>
            /\ pc = "init" => d'.writer_chan = <<RequestOfGet>>
            /\ pc = "loop" => d' = d
            /\ (pc = "select" /\ n_recv' = n_recv) => d' = d
            /\ n_recv' = n_recv + 1 =>
                   IF last_event' = "oack"
                   THEN d'.writer_chan =
                            Append(d.writer_chan, <<d'.remote_addr, Acknowledgment(0)>>)
                   ELSE IF last_event' = "progress" /\ ~sink_failed'
                   THEN d'.writer_chan =
                            Append(d.writer_chan,
                                   <<d'.remote_addr, Acknowledgment(d.current_id)>>)
                   ELSE IF last_event' = "foreign"
                   THEN /\ Len(d'.writer_chan) = Len(d.writer_chan) + 1
                        /\ Last(d'.writer_chan)[2].op = "ERROR"
                   ELSE d'.writer_chan = d.writer_chan
         ]_vars

\* C32 witness: a GET acknowledged block 1, then received from its peer a
\* Data packet that is not block 2 (block 1 sent again is one), and waited
\* for a second: it has emitted the request and ACK(1) and nothing else.
C32_Witness ==
    /\ role = "get" /\ ~first
    /\ n_recv = 2
    /\ Len(accepted) = 1
    /\ received = <<>>
    /\ last_event = "ignored"
    /\ pc = "select"
    /\ timeout < d.opts.receive_timeout
    /\ d.current_id = 2
    /\ d.writer_chan = <<RequestOfGet, <<d.remote_addr, Acknowledgment(1)>>>>

\* Milliseconds since the receive timer was armed before the loop, while no
\* packet has been received.
Waited == call.opts.receive_timeout - timeout

\* C31 as stated, for what the engine does after a packet it should have
\* received was dropped: once the resend timeout has elapsed with nothing
\* received since the request, the resend timer has fired or is about to
\* be selected (in a GET as in a PUT); and the iteration that follows a
\* resend timeout emits once more the packet emitted last.
C31_ResendRecovers ==
    /\ [](/\ pc = "select"
          /\ n_recv = 0
          /\ last_event = "none"
          /\ Waited >= d.opts.resend_timeout
          => Expired(resend_timeout))
    /\ [][(pc = "loop" /\ last_event = "resend") =>
             d'.writer_chan = Append(d.writer_chan, Last(d.writer_chan))]_vars

\* C31, the state that refutes it: a GET with resend timeout 1000 and receive
\* timeout 2000 was never answered (the server's Data block was dropped);
\* no resend timer fired in 2000 ms, the request was sent once, and the call
\* returned the timeout error.
C31_GetGivesUp ==
    /\ role = "get"
    /\ call.opts.resend_timeout = 1000 /\ call.opts.receive_timeout = 2000
    /\ n_recv = 0
    /\ last_event = "timeout"
    /\ result = TimeoutResult
    /\ d.writer_chan = <<RequestOfGet>>

\* ------------------------------------------------------------------------
\* Properties of the session's options
\* ------------------------------------------------------------------------

\* C35: from the acceptance of the first packet on (an Error packet ends
\* the call at once and is no acceptance), the session's options have mode
\* octet and receive timeout 5000, whatever mode and receive timeout the
\* caller passed. The receive timer is armed with the caller's receive
\* timeout before the loop, and every time it is armed again it is armed
\* with 5000.
C35_CallerTimeouts ==
    /\ []((~first /\ last_event # "error") =>
            (d.opts.mode = "octet" /\ d.opts.receive_timeout = 5000))
    /\ [][/\ (first /\ ~first' /\ last_event' # "error") =>
                (d'.opts.mode = "octet" /\ d'.opts.receive_timeout = 5000)
          /\ arm_count' # arm_count =>
                IF arm_count = 0
                THEN timeout' = call.opts.receive_timeout
                ELSE ~first /\ timeout' = 5000
          /\ first => arm_count' <= 1
         ]_vars

\* C35 witness: a GET called with mode netascii and receive timeout 2000
\* accepted Data block 1 as its first packet and armed the receive timer
\* again, with 5000 ms; the session's mode is octet.
C35_Witness ==
    /\ role = "get" /\ ~first
    /\ call.opts.mode = "netascii" /\ call.opts.receive_timeout = 2000
    /\ n_recv = 1
    /\ last_event = "progress"
    /\ pc = "select"
    /\ arm_count = 2
    /\ timeout = 5000
    /\ d.opts.mode = "octet"

\* ------------------------------------------------------------------------
\* Properties of the source of a PUT
\* ------------------------------------------------------------------------

\* C36 as stated, for the runs in which nothing was read or emitted before
\* the first answer: a PUT reads the source only when it holds no block;
\* a Data block shorter than the session's block size is emitted for the
\* first time only when the source is exhausted; and a PUT that has
\* returned Ok has sent, under the block ids 1 .. n, every byte of the
\* source, whatever counts the reads of the source returned.
C36_ShortRead ==
    /\ []((role = "put" /\ result = Ok /\ RepliesInOrder /\ 0 \notin DataIds) =>
             (/\ DataIds = 1 .. Cardinality(DataIds)
              /\ Sent(Cardinality(DataIds)) = d.path_handle.buf))
    /\ [][(role = "put" /\ pc = "loop" /\ ~first) =>
             /\ d'.path_handle.reads # d.path_handle.reads =>
                    (d.data = None /\ d'.path_handle.reads = d.path_handle.reads + 1)
             /\ (/\ d.data = None
                 /\ Len(d'.writer_chan) > Len(d.writer_chan)
                 /\ Len(Last(d'.writer_chan)[2].data) < d.opts.block_size) =>
                    d'.path_handle.pos = Len(d.path_handle.buf)
         ]_vars

\* C36, the state that refutes it: after the server's ACK(0) the only read
\* of a source of 512 bytes returned one byte; it was sent as Data(1), and
\* on ACK(1) the PUT returned Ok with 511 bytes never read.
C36_RestNeverSent ==
    /\ role = "put" /\ result = Ok
    /\ Len(d.path_handle.buf) = DEFAULT_BLOCK_SIZE
    /\ d.opts.block_size = DEFAULT_BLOCK_SIZE
    /\ n_recv = 2
    /\ RepliesInOrder
    /\ d.path_handle.reads = 1 /\ d.path_handle.pos = 1
    /\ d.writer_chan =
           <<RequestOfPut, <<d.remote_addr, Data(1, SubSeq(d.path_handle.buf, 1, 1))>>>>

\* ------------------------------------------------------------------------
\* Properties of a session with block size 0
\* ------------------------------------------------------------------------

\* C38: the step that accepts as first packet an option acknowledgment with
\* blksize "0" makes the session's block size 0, and it stays 0; a call
\* whose session has block size 0 has not returned Ok: it is running, or it
\* has ended on the receive timer, on an Error packet, or on an error of
\* the sink or the source.
C38_ZeroBlockSize ==
    /\ [](d.opts.block_size = 0 =>
            /\ ~first
            /\ result # Ok
            /\ pc = "done" =>
                   \/ result = TimeoutResult /\ last_event = "timeout"
                   \/ result.tag = "Err" /\ last_event = "error"
                   \/ result = Err(ErrSink) /\ sink_failed
                   \/ result = Err(ErrSource) /\ src_fault)
    /\ [][/\ FirstOackStep => d'.opts.block_size = 0
          /\ d.opts.block_size = 0 => d'.opts.block_size = 0]_vars

\* C38 witness: a GET whose first packet was the option acknowledgment with
\* blksize "0" accepted two empty Data blocks and acknowledged both; it is
\* still running.
C38_Witness ==
    /\ role = "get"
    /\ d.opts.block_size = 0
    /\ n_recv = 3
    /\ Len(accepted) = 2
    /\ accepted[1].data = <<>> /\ accepted[2].data = <<>>
    /\ Len(d.writer_chan) = 4
    /\ result = Running

\* ------------------------------------------------------------------------
\* Termination of the engine
\* ------------------------------------------------------------------------

\* C37: every run of GET or PUT with at most MaxRecv progress events, and
\* any number of ignored packets, packets of foreign transfer ids and resend
\* timeouts, ends: the engine returns Ok or an error (ConnectionAborted from
\* the receive timer among them) and is never left running.
C37_Terminates == <>(pc = "done" /\ result # Running)

\* C37 witness: a call that made no progress ended on the receive timer
\* after its first packet had been received and ignored.
C37_Witness ==
    /\ pc = "done"
    /\ result = Err(ErrTimeout)
    /\ ~first
    /\ n_recv = 0
    /\ d.opts = DefaultOptions
    /\ last_event = "timeout"

====
